---- MODULE Spec2Model ----
(***************************************************************************)
(* A model of the brainstorm backend's orchestration pipeline:             *)
(*   backend/core/model_router.py   select_model                           *)
(*   backend/core/intake.py         analyze_intent, _fallback_analysis     *)
(*   backend/core/clarifier.py      generate_clarifications,               *)
(*                                  generate_approach_proposals            *)
(*   backend/core/orchestrator.py   process_message                        *)
(*   backend/routes/chat.py         websocket_endpoint                     *)
(*   backend/skills/skill_engine.py select_skills                          *)
(*   backend/mcps/mcp_selector.py   select_mcps                            *)
(*   backend/core/executor.py       execute_prompt                         *)
(*   backend/core/optimizer.py      build_optimized_prompt                 *)
(* Strings the code only passes along (prompts, intents, contents) are     *)
(* abstracted to the attributes the control flow reads.  Logging           *)
(* (console.print) has no effect on the state and is left out.             *)
(***************************************************************************)
EXTENDS Integers, Sequences, FiniteSets, TLC

VARIABLES
    keys,       \* get_api_keys(): [gemini : BOOLEAN, anthropic : BOOLEAN]
    rt,         \* one select_model call: its arguments and its result
    an,         \* one analyze_intent call: message, service reply, result
    pc,         \* position of process_message in the current turn
    args,       \* the arguments process_message was called with
    intake,     \* the intake dict of the current turn
    events,     \* the events the turn has yielded, in order
    calls,      \* the stages the turn has invoked, in order
    selection,  \* the ModelSelection of the turn
    metadata,   \* the metadata of the final message
    env,        \* what the collaborators answered in the current turn
    ws,         \* websocket_endpoint's state across turns
    fn          \* one call of a stage's function: its inputs and its result

vars == <<keys, rt, an, pc, args, intake, events, calls, selection, metadata, env, ws, fn>>

(***************************************************************************)
(* Bounds of the model (not program constants).                            *)
(***************************************************************************)
\* Raw numbers the model service may return lie RawSlack outside the legal range.
RawSlack == 2
\* Longest user message, in words, in units of ten words.
MaxWordTens == 9
\* Most questions / proposals the model service returns beyond the code's cap.
ExtraItems == 1
\* Most frames websocket_endpoint receives in one session.
MaxFrames == 3

(***************************************************************************)
(* backend/config.py, backend/core/intake.py: constants                    *)
(***************************************************************************)
GEMINI_FLASH == "gemini-3-flash-preview"
GEMINI_PRO == "gemini-3-pro-preview"
CLAUDE_SONNET == "claude-sonnet-4-20250514"

VALID_TASK_TYPES ==
    {"code", "writing", "research", "analysis", "creative",
     "data", "math", "system_design", "debugging", "conversation"}

CLARIFICATION_THRESHOLD == 85

Keys == [gemini : BOOLEAN, anthropic : BOOLEAN]

Min(a, b) == IF a < b THEN a ELSE b
Max(a, b) == IF a > b THEN a ELSE b

(***************************************************************************)
(* backend/core/model_router.py                                            *)
(***************************************************************************)
ModelSelection(primary, fallback, provider) ==
    [primary_model |-> primary, fallback_model |-> fallback, provider |-> provider]

code_tasks == {"code", "debugging", "system_design", "math"}

gemini_tasks == {"creative", "writing", "research", "analysis", "conversation", "data"}

\* lines 39-54: the default, then the choice by task type
SelectByTask(task_type, complexity, claude_available) ==
    IF task_type \in code_tasks /\ claude_available
    THEN ModelSelection(CLAUDE_SONNET, GEMINI_FLASH, "claude")
    ELSE IF task_type \in gemini_tasks
    THEN ModelSelection(IF complexity >= 7 THEN GEMINI_PRO ELSE GEMINI_FLASH,
                        GEMINI_FLASH, "gemini")
    ELSE ModelSelection(GEMINI_FLASH, GEMINI_FLASH, "gemini")

\* lines 56-64: upgrade for high complexity
UpgradeForComplexity(sel, complexity, claude_available, gemini_available) ==
    IF complexity >= 8
    THEN IF claude_available
         THEN ModelSelection(CLAUDE_SONNET,
                             IF gemini_available THEN GEMINI_PRO ELSE GEMINI_FLASH,
                             "claude")
         ELSE IF gemini_available
         THEN ModelSelection(GEMINI_PRO, GEMINI_FLASH, sel.provider)
         ELSE sel
    ELSE sel

\* lines 66-70: without a Claude key everything goes to Gemini
ForceGemini(sel, complexity, claude_available) ==
    IF ~claude_available /\ sel.provider = "claude"
    THEN ModelSelection(IF complexity >= 7 THEN GEMINI_PRO ELSE GEMINI_FLASH,
                        GEMINI_FLASH, "gemini")
    ELSE sel

\* A router that takes no notice of the recommendation hint.
ApplyRecommendationIgnored(sel, task_type, complexity, recommended, claude_available) ==
    sel

\* A recommendation override that forgets to ask for the Claude key.
ApplyRecommendationNoKeyCheck(sel, task_type, complexity, recommended, claude_available) ==
    IF recommended = "claude" /\ sel.provider # "claude"
    THEN ModelSelection(CLAUDE_SONNET, sel.fallback_model, "claude")
    ELSE IF recommended = "gemini" /\ sel.provider = "claude" /\ task_type \notin code_tasks
    THEN ModelSelection(IF complexity >= 7 THEN GEMINI_PRO ELSE GEMINI_FLASH,
                        sel.fallback_model, "gemini")
    ELSE sel

\* lines 72-78: the recommendation hint
ApplyRecommendation(sel, task_type, complexity, recommended, claude_available) ==
    IF recommended = "claude" /\ claude_available /\ sel.provider # "claude"
    THEN ModelSelection(CLAUDE_SONNET, sel.fallback_model, "claude")
    ELSE IF recommended = "gemini" /\ sel.provider = "claude" /\ task_type \notin code_tasks
    THEN ModelSelection(IF complexity >= 7 THEN GEMINI_PRO ELSE GEMINI_FLASH,
                        sel.fallback_model, "gemini")
    ELSE sel

select_model(task_type, complexity, recommended, k) ==
    LET claude_available == k.anthropic
        gemini_available == k.gemini
        s1 == SelectByTask(task_type, complexity, claude_available)
        s2 == UpgradeForComplexity(s1, complexity, claude_available, gemini_available)
        s3 == ForceGemini(s2, complexity, claude_available)
    IN  ApplyRecommendation(s3, task_type, complexity, recommended, claude_available)

NoSelection == ModelSelection("", "", "")

\* Arguments select_model is checked on: every valid task type and one unknown
\* one, every complexity 1..10, both hints and an unknown one.
RouterTaskTypes == VALID_TASK_TYPES \cup {"unknown"}
RouterHints == {"gemini", "claude", "unknown"}

RouterCalls ==
    [task_type : RouterTaskTypes, complexity : 1..10, recommended : RouterHints,
     done : {FALSE}, out : {NoSelection}]

NoRouterCall ==
    [task_type |-> "conversation", complexity |-> 1, recommended |-> "gemini",
     done |-> TRUE, out |-> NoSelection]

(***************************************************************************)
(* backend/core/intake.py                                                  *)
(***************************************************************************)
\* A number field of the service's JSON: absent, not convertible by int(),
\* or an integer v.
Missing == [tag |-> "missing", v |-> 0]
NonNumeric == [tag |-> "bad", v |-> 0]
Num(n) == [tag |-> "int", v |-> n]

MissingField == "<missing>"

FallbackNotice == "Could not perform full intent analysis - using heuristic fallback"

\* class IntakeAnalysis (lines 22-30); the free-text fields the control flow
\* never reads (interpreted_intent, inferred_context, suggested_capabilities)
\* are left out.  The class has no requires_brainstorming field.
IntakeAnalysis(task_type, complexity, confidence_score, ambiguity_areas, recommended_model) ==
    [task_type |-> task_type, complexity |-> complexity,
     confidence_score |-> confidence_score, ambiguity_areas |-> ambiguity_areas,
     recommended_model |-> recommended_model]

\* The keyword lists of _fallback_analysis, in the order they are tried.
KeywordOrder == <<"code", "writing", "research", "analysis", "creative", "data", "math">>

\* A user message: its word count in tens (only word_count // 10 is read),
\* the keyword lists that match it, and whether a freshness keyword of
\* should_search occurs in it.
FirstMatch(kw) ==
    IF \E i \in 1..Len(KeywordOrder) : KeywordOrder[i] \in kw
    THEN KeywordOrder[CHOOSE i \in 1..Len(KeywordOrder) :
            /\ KeywordOrder[i] \in kw
            /\ \A j \in 1..(i - 1) : KeywordOrder[j] \notin kw]
    ELSE "conversation"

\* A fallback that reports the analyzer's usual default confidence and no notice.
FallbackSilent(user_message, claude_available) ==
    LET task_type == FirstMatch(user_message.kw)
    IN  IntakeAnalysis(task_type, Min(10, Max(1, user_message.word_tens + 2)), 50, << >>,
                       IF task_type \in code_tasks /\ claude_available
                       THEN "claude" ELSE "gemini")

\* lines 185-229
_fallback_analysis(user_message, claude_available) ==
    LET task_type == FirstMatch(user_message.kw)
        recommended == IF task_type \in code_tasks /\ claude_available
                       THEN "claude" ELSE "gemini"
        complexity == Min(10, Max(1, user_message.word_tens + 2))
    IN  IntakeAnalysis(task_type, complexity, 60, <<FallbackNotice>>, recommended)

\* int(data.get(field, default)) raises for a value int() cannot convert.
IntRaises(raw) == raw.tag = "bad"
IntOf(raw, default) == IF raw.tag = "missing" THEN default ELSE raw.v

\* Whether the try block of analyze_intent (lines 132-175) raises: the call
\* throws, json.loads fails or yields no object, int() fails, or a field has
\* a type IntakeAnalysis rejects.
IntakeRaises(reply) ==
    \/ reply.kind # "json"
    \/ IntRaises(reply.complexity)
    \/ IntRaises(reply.confidence_score)
    \/ ~reply.typed_ok

\* lines 152-175, without the clamps
ParseReplyUnclamped(reply, claude_available) ==
    LET task_type == IF reply.task_type \in VALID_TASK_TYPES
                     THEN reply.task_type ELSE "conversation"
        r0 == IF reply.recommended_model \in {"gemini", "claude"}
              THEN reply.recommended_model ELSE "gemini"
        recommended == IF r0 = "claude" /\ ~claude_available THEN "gemini" ELSE r0
    IN  IntakeAnalysis(task_type, IntOf(reply.complexity, 3),
                       IntOf(reply.confidence_score, 50),
                       reply.ambiguity_areas, recommended)

\* lines 152-175: validate and clamp
ParseReply(reply, claude_available) ==
    LET task_type == IF reply.task_type \in VALID_TASK_TYPES
                     THEN reply.task_type ELSE "conversation"
        complexity == Max(1, Min(10, IntOf(reply.complexity, 3)))
        confidence == Max(0, Min(100, IntOf(reply.confidence_score, 50)))
        r0 == IF reply.recommended_model \in {"gemini", "claude"}
              THEN reply.recommended_model ELSE "gemini"
        recommended == IF r0 = "claude" /\ ~claude_available THEN "gemini" ELSE r0
    IN  IntakeAnalysis(task_type, complexity, confidence, reply.ambiguity_areas, recommended)

\* lines 88-182
analyze_intent(user_message, reply, k) ==
    LET claude_available == k.anthropic
    IN  IF IntakeRaises(reply)
        THEN _fallback_analysis(user_message, claude_available)
        ELSE ParseReply(reply, claude_available)

\* What the model service may answer to the intake call.
ThrowReply ==
    [kind |-> "throw", task_type |-> MissingField, complexity |-> Missing,
     confidence_score |-> Missing, recommended_model |-> MissingField,
     ambiguity_areas |-> << >>, requires_brainstorming |-> FALSE, typed_ok |-> TRUE]

MalformedReply == [ThrowReply EXCEPT !.kind = "malformed"]

RawComplexity == {Missing, NonNumeric} \cup {Num(n) : n \in (1 - RawSlack)..(10 + RawSlack)}

RawConfidence ==
    {Missing, NonNumeric} \cup
    {Num(n) : n \in {c \in (0 - RawSlack)..(100 + RawSlack) :
                        c <= 1 \/ c >= 99 \/ c \in 84..85 \/ c = 60}}

JsonReplies ==
    [kind : {"json"},
     task_type : {"code", "research", "unknown", MissingField},
     complexity : RawComplexity,
     confidence_score : RawConfidence,
     recommended_model : {"gemini", "claude", "unknown", MissingField},
     ambiguity_areas : {<< >>, <<"unclear scope">>},
     requires_brainstorming : BOOLEAN,
     typed_ok : BOOLEAN]

Messages ==
    [word_tens : 0..MaxWordTens,
     kw : {s \in SUBSET {KeywordOrder[i] : i \in 1..Len(KeywordOrder)} : Cardinality(s) <= 2},
     fresh : {FALSE}]

ShortMessage == [word_tens |-> 0, kw |-> {}, fresh |-> FALSE]

NoIntake == IntakeAnalysis("", 0, 0, << >>, "")

AnalyzerCalls ==
    [message : {ShortMessage}, reply : JsonReplies, done : {FALSE}, out : {NoIntake}]
    \cup
    [message : Messages,
     reply : {ThrowReply, MalformedReply,
              [ThrowReply EXCEPT !.kind = "json", !.complexity = NonNumeric],
              [ThrowReply EXCEPT !.kind = "json", !.typed_ok = FALSE]},
     done : {FALSE}, out : {NoIntake}]

NoAnalyzerCall ==
    [message |-> ShortMessage, reply |-> ThrowReply, done |-> TRUE, out |-> NoIntake]

(***************************************************************************)
(* backend/core/clarifier.py                                               *)
(***************************************************************************)
\* The model service's answer to the clarifier or the proposer: it throws
\* (or answers no JSON object), or answers a list of n items.
ListReplies == {[kind |-> "throw", n |-> 0]} \cup [kind : {"json"}, n : 0..(4 + ExtraItems)]
NoListReply == [kind |-> "none", n |-> 0]

\* A field value the pydantic class of the entry rejects (null, a number
\* for a string, a word for a bool): constructing the entry raises.
Invalid == "<invalid>"

\* s[:n]
Take(s, n) == SubSeq(s, 1, Min(Len(s), n))

\* One entry of the "questions" list of the service's answer, by its
\* "default" field: absent, the empty string, a text, or not a string.
QuestionData == [default : {MissingField, "", "a default", Invalid}]

\* One entry of the "approaches" list, by its "recommended" field.
ApproachData == [recommended : {MissingField, "true", "false", Invalid}]

\* The answers process_message's turns are checked on: n well-formed entries.
Questions(reply) ==
    [kind |-> reply.kind, items |-> [i \in 1..reply.n |-> [default |-> "a default"]]]

Approaches(reply) ==
    [kind |-> reply.kind,
     items |-> [i \in 1..reply.n |-> [recommended |-> IF i = 1 THEN "true" ELSE "false"]]]

\* lines 17-22 and 161-167: default = q_data.get("default", "")
ClarificationQuestion(q_data) ==
    [default |-> IF q_data.default = MissingField THEN "" ELSE q_data.default]

\* lines 30-37 and 289-297: recommended = a_data.get("recommended", False)
ApproachProposal(a_data) ==
    [recommended |-> a_data.recommended = "true"]

\* A clarifier that keeps every question the service returned.
ClarificationsUncapped(reply, k) ==
    LET q_list == reply.items
        failed == \/ ~k.gemini \/ reply.kind # "json"
                  \/ \E i \in 1..Len(q_list) : q_list[i].default = Invalid
        questions == IF failed THEN << >>
                     ELSE [i \in 1..Len(q_list) |-> ClarificationQuestion(q_list[i])]
    IN  [questions |-> Len(questions), needs_clarification |-> Len(questions) > 0,
         defaults |-> [i \in 1..Len(questions) |-> questions[i].default]]

\* lines 96-177: without a Gemini key, or when the call, the parse or the
\* construction of one of the first four entries fails, no questions;
\* otherwise the first four questions of the answer.  `questions` is the
\* length of the list, `defaults` the default of each question.
generate_clarifications(reply, k) ==
    LET q_list == Take(reply.items, 4)
        failed == \/ ~k.gemini \/ reply.kind # "json"
                  \/ \E i \in 1..Len(q_list) : q_list[i].default = Invalid
        questions == IF failed THEN << >>
                     ELSE [i \in 1..Len(q_list) |-> ClarificationQuestion(q_list[i])]
    IN  [questions |-> Len(questions), needs_clarification |-> Len(questions) > 0,
         defaults |-> [i \in 1..Len(questions) |-> questions[i].default]]

\* lines 231-307: likewise, the first three approaches of the answer.
\* `approaches` is the length of the list, `recommended` the flag of each.
generate_approach_proposals(reply, k) ==
    LET a_list == Take(reply.items, 3)
        failed == \/ ~k.gemini \/ reply.kind # "json"
                  \/ \E i \in 1..Len(a_list) : a_list[i].recommended = Invalid
        approaches == IF failed THEN << >>
                      ELSE [i \in 1..Len(a_list) |-> ApproachProposal(a_list[i])]
    IN  [approaches |-> Len(approaches),
         recommended |-> [i \in 1..Len(approaches) |-> approaches[i].recommended]]

\* No call of a stage's function is under way.
NoCall == [name |-> "", done |-> TRUE]

(***************************************************************************)
(* backend/core/orchestrator.py: process_message                           *)
(***************************************************************************)
\* Python truthiness of an Optional[dict] argument: None and {} are falsy.
Truthy(d) == d = "some"

\* A lookup whose default is True.
RequiresBrainstormingDefaultTrue(d) ==
    IF "requires_brainstorming" \in DOMAIN d THEN d.requires_brainstorming ELSE TRUE

\* intake.get("requires_brainstorming", False)
RequiresBrainstorming(d) ==
    IF "requires_brainstorming" \in DOMAIN d THEN d.requires_brainstorming ELSE FALSE

\* IntakeAnalysis.model_dump(): a dict of the declared fields.
model_dump(a) == a

Event(type, state, n) == [type |-> type, state |-> state, n |-> n]
Status(state) == Event("status", state, 0)
\* Whether the turn has yielded an event of this type.
Emitted(type) == \E i \in 1..Len(events) : events[i].type = type

NoMetadata == [confidence_score |-> -1, task_type |-> "", complexity |-> 0, model_used |-> "",
               mcps_used |-> {}]
NoEnv == [intake |-> ThrowReply, asked |-> FALSE, clarifier |-> NoListReply,
          proposer |-> NoListReply, questions |-> 0, approaches |-> 0,
          recommended_tools |-> FALSE, raised |-> FALSE,
          usage_committed |-> 0, interaction_count |-> 0,
          mcp_selection |-> [active |-> {}, recommended |-> {}],
          assembler_tools |-> {}, executor_tools |-> {}, info_names |-> {},
          result |-> [content |-> "response", model_used |-> "", fallback_used |-> FALSE,
                      error |-> FALSE, error_text |-> "", tool_calls_made |-> 0,
                      files_created |-> 0, attempts |-> << >>]]

HasPrevious(a) == Len(a.previous_intake) > 0
\* line 75: previous_intake and clarification_answers
Resumed(a) == HasPrevious(a) /\ Truthy(a.clarification_answers)

\* What the intake call may be answered in a turn.
TurnReplies ==
    {ThrowReply, MalformedReply} \cup
    [kind : {"json"},
     task_type : {"code", "research"},
     complexity : {Num(8)},
     confidence_score : {Num(30), Num(84), Num(85), Num(101)},
     recommended_model : {"claude"},
     ambiguity_areas : {<< >>},
     requires_brainstorming : BOOLEAN,
     typed_ok : {TRUE}]

\* A resumed turn that keeps the prior record's confidence.
ResumeKeepConfidence(a) == a.previous_intake[1]

\* lines 77-78
ResumeIntake(a) == [a.previous_intake[1] EXCEPT !.confidence_score = 95]

\* A handler that swallows the exception and yields nothing.
ExceptHandlerSilent(evs) == evs

\* lines 343-349: except Exception yields the single error event, after
\* which the generator returns
ExceptHandler(evs) == Append(evs, Event("error", "", 0))

\* lines 89-90: the log lines index the intake dict by these keys; a dict
\* without one of them raises KeyError
CanLogIntake(d) == {"task_type", "complexity", "confidence_score"} \subseteq DOMAIN d

\* lines 65-72: the first status, the profile and the memories
LoadContext ==
    /\ pc = "start"
    /\ events' = Append(events, Status("analyzing"))
    /\ calls' = calls \o <<"get_user_profile", "recall_memories">>
    /\ pc' = "intake"
    /\ UNCHANGED <<keys, rt, an, args, intake, selection, metadata, env, ws, fn>>

\* lines 74-90
Intake ==
    /\ pc = "intake"
    /\ IF Resumed(args)
       THEN /\ intake' = ResumeIntake(args)
            /\ UNCHANGED calls
            /\ IF CanLogIntake(ResumeIntake(args))
               THEN /\ pc' = "gate"
                    /\ UNCHANGED <<events, env>>
               ELSE /\ events' = ExceptHandler(events)
                    /\ env' = [env EXCEPT !.raised = TRUE]
                    /\ pc' = "done"
       ELSE \E reply \in TurnReplies :
            /\ events' = Append(events, Status("analyzing"))
            /\ calls' = Append(calls, "analyze_intent")
            /\ env' = [env EXCEPT !.intake = reply, !.asked = TRUE]
            /\ intake' = model_dump(analyze_intent(args.user_message, reply, keys))
            /\ pc' = "gate"
    /\ UNCHANGED <<keys, rt, an, args, selection, metadata, ws, fn>>

\* lines 99-115 and 140-155: run the clarifier; suspend if it has questions
Clarify(brainstorming) ==
    \E reply \in ListReplies :
        LET clarification == generate_clarifications(Questions(reply), keys)
        IN  /\ calls' = Append(calls, "generate_clarifications")
            /\ env' = [env EXCEPT !.clarifier = reply,
                                   !.questions = clarification.questions]
            /\ IF clarification.needs_clarification
               THEN /\ events' = events \o <<Status("clarifying"),
                                   Event("clarification",
                                         IF brainstorming THEN "brainstorming" ELSE "",
                                         clarification.questions)>>
                    /\ pc' = "suspended"
               ELSE /\ events' = Append(events, Status("clarifying"))
                    /\ pc' = "skills"

\* A proposer step that suspends the turn even when it has no proposals.
ProposeAlwaysSuspend ==
    \E reply \in ListReplies :
        LET approach_result == generate_approach_proposals(Approaches(reply), keys)
        IN  /\ calls' = Append(calls, "generate_approach_proposals")
            /\ env' = [env EXCEPT !.proposer = reply,
                                   !.approaches = approach_result.approaches]
            /\ events' = events \o <<Status("brainstorming"),
                               Event("approach_proposal", "", approach_result.approaches)>>
            /\ pc' = "suspended"

\* lines 119-136: run the proposer; suspend if it has proposals
Propose ==
    \E reply \in ListReplies :
        LET approach_result == generate_approach_proposals(Approaches(reply), keys)
        IN  /\ calls' = Append(calls, "generate_approach_proposals")
            /\ env' = [env EXCEPT !.proposer = reply,
                                   !.approaches = approach_result.approaches]
            /\ IF approach_result.approaches > 0
               THEN /\ events' = events \o <<Status("brainstorming"),
                                   Event("approach_proposal", "", approach_result.approaches)>>
                    /\ pc' = "suspended"
               ELSE /\ events' = Append(events, Status("brainstorming"))
                    /\ pc' = "skills"

\* A gate that also clarifies at the threshold itself.
NeedsClarificationInclusive(d, a) ==
    d.confidence_score <= CLARIFICATION_THRESHOLD /\ ~Truthy(a.clarification_answers)

\* line 138
NeedsClarification(d, a) ==
    d.confidence_score < CLARIFICATION_THRESHOLD /\ ~Truthy(a.clarification_answers)

\* lines 92-155: the brainstorming gate and the clarification gate.  The
\* intake dict has the requires_brainstorming key only when it is a prior
\* record handed back with answers (line 75), so the first branch below asks
\* for a state no call reaches.
Gate ==
    /\ pc = "gate"
    /\ IF RequiresBrainstorming(intake)
       THEN IF ~Truthy(args.clarification_answers)
            THEN Clarify(TRUE)
            ELSE IF ~Truthy(args.selected_approach)
            THEN Propose
            ELSE /\ pc' = "skills"
                 /\ UNCHANGED <<events, calls, env>>
       ELSE IF NeedsClarification(intake, args)
       THEN Clarify(FALSE)
       ELSE /\ pc' = "skills"
            /\ UNCHANGED <<events, calls, env>>
    /\ UNCHANGED <<keys, rt, an, args, intake, selection, metadata, ws, fn>>

\* backend/core/executor.py.  One generation attempt: the provider whose
\* SDK is called and the model asked for.
Attempt(provider, model) == [provider |-> provider, model |-> model]

\* lines 32-35: Claude for provider "claude", Gemini for anything else
PrimaryAttempt(sel) ==
    Attempt(IF sel.provider = "claude" THEN "claude" ELSE "gemini", sel.primary_model)

\* A retry sent to the provider of the primary attempt.
RetryAttemptSameProvider(sel) ==
    Attempt(IF sel.provider = "claude" THEN "claude" ELSE "gemini", sel.fallback_model)

\* line 46: the retry always goes through _execute_gemini
RetryAttempt(sel) == Attempt("gemini", sel.fallback_model)

\* lines 70-72 and 111-113: an attempt raises without its provider's key
CanSucceed(attempt, k) ==
    IF attempt.provider = "claude" THEN k.anthropic ELSE k.gemini

\* line 43: if fallback_model and fallback_model != model
ShouldRetry(sel) ==
    sel.fallback_model # "" /\ sel.fallback_model # sel.primary_model

\* lines 94-99 and 136-141, and line 47 for a retry; process_message passes
\* no project_folder, so no file is written.
Generated(model, fallback_used, attempts) ==
    [content |-> "response", model_used |-> model, fallback_used |-> fallback_used,
     error |-> FALSE, error_text |-> "", tool_calls_made |-> 0, files_created |-> 0,
     attempts |-> attempts]

\* An apology that leaves the error out.
ApologyWithoutError(sel, attempts) ==
    [content |-> "apology", model_used |-> sel.primary_model, fallback_used |-> FALSE,
     error |-> FALSE, error_text |-> "", tool_calls_made |-> 0, files_created |-> 0,
     attempts |-> attempts]

\* lines 52-58: the apology embeds the primary attempt's error
Apology(sel, attempts) ==
    [content |-> "apology", model_used |-> sel.primary_model, fallback_used |-> FALSE,
     error |-> TRUE, error_text |-> "primary", tool_calls_made |-> 0, files_created |-> 0,
     attempts |-> attempts]

\* lines 19-58: the primary attempt, one retry on the fallback model, else
\* the apology.  primary_ok and fallback_ok say whether the provider's call
\* would succeed.
execute_prompt(sel, primary_ok, fallback_ok, k) ==
    LET first == PrimaryAttempt(sel)
        retry == RetryAttempt(sel)
    IN  IF primary_ok /\ CanSucceed(first, k)
        THEN Generated(sel.primary_model, FALSE, <<first>>)
        ELSE IF ShouldRetry(sel)
        THEN IF fallback_ok /\ CanSucceed(retry, k)
             THEN Generated(sel.fallback_model, TRUE, <<first, retry>>)
             ELSE Apology(sel, <<first, retry>>)
        ELSE Apology(sel, <<first>>)

NoResult == Generated("", FALSE, << >>)

\* backend/tools/web_search.py lines 44-69
should_search(task_type, user_message) ==
    task_type = "research" \/ user_message.fresh

\* lines 157-165; select_skills commits its usage increments before it
\* returns (skill_engine.py 80-87): usage_committed counts those commits.
SelectSkills ==
    /\ pc = "skills"
    /\ events' = Append(events, Status("optimizing"))
    /\ calls' = Append(calls, "select_skills")
    /\ env' = [env EXCEPT !.usage_committed = @ + 1]
    /\ pc' = "mcps"
    /\ UNCHANGED <<keys, rt, an, args, intake, selection, metadata, ws, fn>>

\* What select_mcps may hand back in a turn, by tool name: nothing, or an
\* active tool together with a recommended one.
TurnSelections ==
    {[active |-> {}, recommended |-> {}],
     [active |-> {"filesystem"}, recommended |-> {"github"}]}

\* Tools handed on from both buckets.
AvailableToolsWithRecommended(mcp_selection) ==
    mcp_selection.active \cup mcp_selection.recommended

\* lines 206 and 253: mcp_selection.get("active", [])
available_tools(mcp_selection) == mcp_selection.active

\* lines 167-180: tool selection, then the web search when it is called for
SelectMcps ==
    /\ pc = "mcps"
    /\ \E mcp_selection \in TurnSelections :
           env' = [env EXCEPT !.mcp_selection = mcp_selection,
                              !.recommended_tools = mcp_selection.recommended # {}]
    /\ IF should_search(intake.task_type, args.user_message)
       THEN /\ events' = events \o <<Status("optimizing"), Status("optimizing")>>
            /\ calls' = calls \o <<"select_mcps", "search_and_summarize">>
       ELSE /\ events' = Append(events, Status("optimizing"))
            /\ calls' = Append(calls, "select_mcps")
    /\ pc' = "optimize"
    /\ UNCHANGED <<keys, rt, an, args, intake, selection, metadata, ws, fn>>

\* lines 182-219: assemble the prompt, route, announce the execution
Optimize ==
    /\ pc = "optimize"
    /\ selection' = select_model(intake.task_type, intake.complexity,
                                 intake.recommended_model, keys)
    /\ env' = [env EXCEPT !.assembler_tools = available_tools(env.mcp_selection)]
    /\ events' = events \o <<Status("optimizing"), Status("executing")>>
    /\ calls' = calls \o <<"build_optimized_prompt", "select_model">>
    /\ pc' = "execute"
    /\ UNCHANGED <<keys, rt, an, args, intake, metadata, ws, fn>>

\* lines 221-226: the call names prompt, model, provider and fallback_model
\* and leaves the tools parameter at its default, None
Execute ==
    /\ pc = "execute"
    /\ \E primary_ok \in BOOLEAN, fallback_ok \in BOOLEAN :
           env' = [env EXCEPT !.result =
                       execute_prompt(selection, primary_ok, fallback_ok, keys),
                              !.executor_tools = {}]
    /\ calls' = Append(calls, "execute_prompt")
    /\ pc' = "scaffold"
    /\ UNCHANGED <<keys, rt, an, args, intake, events, selection, metadata, ws, fn>>

\* backend/tools/project_scaffolder.py lines 42-90 on the executor's
\* result: a generated response may or may not hold file blocks; the
\* apology of executor.py lines 52-58 is a fixed sentence around the error
\* text and holds none.
ScaffoldOutcomes(result) ==
    IF result.content = "apology"
    THEN {"no_files"}
    ELSE {"no_files", "raise", "scaffolded", "not_scaffolded"}

\* A materialization whose failure undoes what skill selection committed.
ScaffoldRollsBack ==
    /\ pc = "scaffold"
    /\ IF RequiresBrainstorming(intake)
          \/ intake.task_type \in {"code", "creative", "system_design"}
       THEN \E outcome \in ScaffoldOutcomes(env.result) :
            /\ calls' = IF outcome = "no_files"
                        THEN Append(calls, "extract_files_from_response")
                        ELSE calls \o <<"extract_files_from_response", "scaffold_project">>
            /\ events' = CASE outcome = "no_files" -> events
                           [] outcome = "raise" ->
                                ExceptHandler(Append(events, Status("scaffolding")))
                           [] outcome = "scaffolded" ->
                                events \o <<Status("scaffolding"), Status("scaffolding")>>
                           [] OTHER -> Append(events, Status("scaffolding"))
            /\ env' = [env EXCEPT !.raised = (outcome = "raise"),
                                   !.usage_committed =
                                       IF outcome = "raise" THEN 0 ELSE @]
            /\ pc' = IF outcome = "raise" THEN "done" ELSE "message"
       ELSE /\ pc' = "message"
            /\ UNCHANGED <<events, calls, env>>
    /\ UNCHANGED <<keys, rt, an, args, intake, selection, metadata, ws, fn>>

\* lines 228-249 and 343-349: materialization; scaffold_project has no
\* handler of its own, so what it raises ends the turn with the error event.
Scaffold ==
    /\ pc = "scaffold"
    /\ IF RequiresBrainstorming(intake)
          \/ intake.task_type \in {"code", "creative", "system_design"}
       THEN \E outcome \in ScaffoldOutcomes(env.result) :
            /\ calls' = IF outcome = "no_files"
                        THEN Append(calls, "extract_files_from_response")
                        ELSE calls \o <<"extract_files_from_response", "scaffold_project">>
            /\ events' = CASE outcome = "no_files" -> events
                           [] outcome = "raise" ->
                                ExceptHandler(Append(events, Status("scaffolding")))
                           [] outcome = "scaffolded" ->
                                events \o <<Status("scaffolding"), Status("scaffolding")>>
                           [] OTHER -> Append(events, Status("scaffolding"))
            /\ env' = [env EXCEPT !.raised = (outcome = "raise")]
            /\ pc' = IF outcome = "raise" THEN "done" ELSE "message"
       ELSE /\ pc' = "message"
            /\ UNCHANGED <<events, calls, env>>
    /\ UNCHANGED <<keys, rt, an, args, intake, selection, metadata, ws, fn>>

\* lines 251-261
BuildMetadata(d, a, result, mcp_selection) ==
    [confidence_score |-> d.confidence_score, task_type |-> d.task_type,
     complexity |-> d.complexity, model_used |-> result.model_used,
     mcps_used |-> available_tools(mcp_selection)]

\* A turn that yields the message without the completion status.
FinalEventsMessageOnly == <<Event("message", "", 0)>>

\* lines 311-317: two successive yields
FinalEvents == <<Event("message", "", 0), Status("complete")>>

\* lines 251-317: the final message, then the completion status
EmitMessage ==
    /\ pc = "message"
    /\ metadata' = BuildMetadata(intake, args, env.result, env.mcp_selection)
    /\ events' = events \o FinalEvents
    /\ pc' = "bookkeep"
    /\ UNCHANGED <<keys, rt, an, args, intake, calls, selection, env, ws, fn>>

\* A bookkeeping step whose failures reach the handler of the turn.
BookkeepUnguarded ==
    /\ pc = "bookkeep"
    /\ calls' = calls \o <<"update_interaction_count", "remember">>
    /\ \E failed \in BOOLEAN :
           /\ events' = IF failed THEN ExceptHandler(events)
                         ELSE IF env.recommended_tools
                         THEN Append(events, Status("info")) ELSE events
           /\ env' = [env EXCEPT !.raised = failed,
                                  !.interaction_count = IF failed THEN @ ELSE @ + 1,
                                  !.info_names = IF failed THEN @
                                                 ELSE env.mcp_selection.recommended]
    /\ pc' = "done"
    /\ UNCHANGED <<keys, rt, an, args, intake, selection, metadata, ws, fn>>

\* lines 319-341: bookkeeping, whose failures are taken by handlers of its
\* own (user_profile.py 42-51, orchestrator.py 324-332), then the note about
\* tools that need setup.  The interaction counter is incremented when the
\* user row exists and the commit succeeds.
Bookkeep ==
    /\ pc = "bookkeep"
    /\ calls' = calls \o <<"update_interaction_count", "remember">>
    /\ \E counted \in BOOLEAN :
           env' = [env EXCEPT !.interaction_count = IF counted THEN @ + 1 ELSE @,
                              !.info_names = env.mcp_selection.recommended]
    /\ events' = IF env.recommended_tools
                 THEN Append(events, Status("info")) ELSE events
    /\ pc' = "done"
    /\ UNCHANGED <<keys, rt, an, args, intake, selection, metadata, ws, fn>>

Turn ==
    \/ LoadContext
    \/ Intake
    \/ Gate
    \/ SelectSkills
    \/ SelectMcps
    \/ Optimize
    \/ Execute
    \/ Scaffold
    \/ EmitMessage
    \/ Bookkeep

\* The turn has ended: it ran to its end, failed, or suspended.
TurnOver == pc \in {"done", "suspended"}

(***************************************************************************)
(* Specification of one process_message call, on every argument            *)
(* combination of the bounded sets below.                                  *)
(***************************************************************************)
TurnMessages ==
    {[word_tens |-> 0, kw |-> {}, fresh |-> FALSE],
     [word_tens |-> 1, kw |-> {"code"}, fresh |-> TRUE]}

PriorBase ==
    [task_type : {"code", "research"}, complexity : {3},
     confidence_score : {60, 90}, ambiguity_areas : {<< >>},
     recommended_model : {"gemini"}]

\* A prior record without the complexity key.
IncompletePrior ==
    [task_type |-> "code", confidence_score |-> 60, ambiguity_areas |-> << >>,
     recommended_model |-> "gemini"]

\* Prior intent records a caller may hand back: with or without the
\* requires_brainstorming key.
PriorIntakes ==
    PriorBase \cup {IncompletePrior} \cup
    {[task_type |-> b.task_type, complexity |-> b.complexity,
      confidence_score |-> b.confidence_score, ambiguity_areas |-> b.ambiguity_areas,
      recommended_model |-> b.recommended_model, requires_brainstorming |-> x] :
        b \in PriorBase, x \in BOOLEAN}

TurnArgs ==
    [user_message : TurnMessages,
     clarification_answers : {"none", "empty", "some"},
     previous_intake : {<< >>} \cup {<<d>> : d \in PriorIntakes},
     selected_approach : {"none", "some"}]

NoArgs ==
    [user_message |-> ShortMessage, clarification_answers |-> "none",
     previous_intake |-> << >>, selected_approach |-> "none"]

\* websocket_endpoint before its first frame: no chat message stored, no
\* pending answers, no frame being handled; clarification_sent and
\* approach_sent record what earlier turns of the current request emitted.
NoWs ==
    [frames |-> 0, has_message |-> FALSE, last_user_msg |-> ShortMessage,
     pending_clarification_answers |-> "none", handling |-> "",
     clarification_sent |-> FALSE, approach_sent |-> FALSE]

TurnStart ==
    /\ pc = "start"
    /\ intake = NoIntake
    /\ events = << >>
    /\ calls = << >>
    /\ selection = NoSelection
    /\ metadata = NoMetadata
    /\ env = NoEnv

Init ==
    /\ keys \in Keys
    /\ args \in TurnArgs
    /\ TurnStart
    /\ rt = NoRouterCall
    /\ an = NoAnalyzerCall
    /\ ws = NoWs
    /\ fn = NoCall

Next == Turn

Spec == Init /\ [][Next]_vars

(***************************************************************************)
(* Specification of select_model as a function of its arguments.           *)
(***************************************************************************)
RouterCall ==
    /\ ~rt.done
    /\ rt' = [rt EXCEPT !.done = TRUE,
                        !.out = select_model(rt.task_type, rt.complexity,
                                             rt.recommended, keys)]
    /\ UNCHANGED <<keys, an, pc, args, intake, events, calls, selection, metadata, env, ws, fn>>

TurnIdle ==
    /\ pc = "idle"
    /\ args = NoArgs
    /\ intake = NoIntake
    /\ events = << >>
    /\ calls = << >>
    /\ selection = NoSelection
    /\ metadata = NoMetadata
    /\ env = NoEnv

InitRouter ==
    /\ keys \in Keys
    /\ rt \in RouterCalls
    /\ an = NoAnalyzerCall
    /\ TurnIdle
    /\ ws = NoWs
    /\ fn = NoCall

NextRouter == RouterCall

SpecRouter == InitRouter /\ [][NextRouter]_vars

(***************************************************************************)
(* Specification of analyze_intent as a function of the message, the       *)
(* credentials and the model service's answer.                             *)
(***************************************************************************)
AnalyzerCall ==
    /\ ~an.done
    /\ an' = [an EXCEPT !.done = TRUE,
                        !.out = analyze_intent(an.message, an.reply, keys)]
    /\ UNCHANGED <<keys, rt, pc, args, intake, events, calls, selection, metadata, env, ws, fn>>

InitIntake ==
    /\ keys \in Keys
    /\ an \in AnalyzerCalls
    /\ rt = NoRouterCall
    /\ TurnIdle
    /\ ws = NoWs
    /\ fn = NoCall

NextIntake == AnalyzerCall

SpecIntake == InitIntake /\ [][NextIntake]_vars

(***************************************************************************)
(* backend/routes/chat.py: websocket_endpoint, one session on one project. *)
(* Each frame is handled to the end of its process_message call before the *)
(* next frame is received.                                                 *)
(***************************************************************************)
StartTurn(a) ==
    /\ args' = a
    /\ pc' = "start"
    /\ intake' = NoIntake
    /\ events' = << >>
    /\ calls' = << >>
    /\ selection' = NoSelection
    /\ metadata' = NoMetadata
    /\ env' = NoEnv

\* lines 58-98: a chat message starts a fresh turn on its content; a frame
\* with empty content is skipped.
WsMessage ==
    /\ pc = "idle" /\ ws.frames < MaxFrames
    /\ \/ /\ ws' = [ws EXCEPT !.frames = @ + 1]
          /\ UNCHANGED <<pc, args, intake, events, calls, selection, metadata, env>>
       \/ \E m \in TurnMessages :
          /\ ws' = [ws EXCEPT !.frames = @ + 1, !.has_message = TRUE,
                              !.last_user_msg = m, !.handling = "message",
                              !.clarification_sent = FALSE, !.approach_sent = FALSE]
          /\ StartTurn([user_message |-> m, clarification_answers |-> "none",
                        previous_intake |-> << >>, selected_approach |-> "none"])
    /\ UNCHANGED <<keys, rt, an, fn>>

\* lines 101-149: the answers are kept and the last chat message is
\* processed again with them; no previous_intake is passed.
WsClarificationResponse ==
    /\ pc = "idle" /\ ws.frames < MaxFrames
    /\ \E answers \in {"empty", "some"} :
          IF ws.has_message
          THEN /\ ws' = [ws EXCEPT !.frames = @ + 1,
                                   !.pending_clarification_answers = answers,
                                   !.handling = "clarification_response"]
               /\ StartTurn([user_message |-> ws.last_user_msg,
                             clarification_answers |-> answers,
                             previous_intake |-> << >>, selected_approach |-> "none"])
          ELSE /\ ws' = [ws EXCEPT !.frames = @ + 1,
                                   !.pending_clarification_answers = answers]
               /\ UNCHANGED <<pc, args, intake, events, calls, selection, metadata, env>>
    /\ UNCHANGED <<keys, rt, an, fn>>

\* lines 152-187: the selected approach and the answers (those of the frame,
\* else the pending ones, else {}) go to a new turn on the last chat message.
WsApproachSelection ==
    /\ pc = "idle" /\ ws.frames < MaxFrames
    /\ \E approach \in {"empty", "some"}, given \in {"absent", "empty", "some"} :
          LET pending == IF Truthy(ws.pending_clarification_answers)
                         THEN ws.pending_clarification_answers ELSE "empty"
              answers == IF given = "absent" THEN pending ELSE given
          IN  IF ws.has_message
              THEN /\ ws' = [ws EXCEPT !.frames = @ + 1,
                                       !.handling = "approach_selection"]
                   /\ StartTurn([user_message |-> ws.last_user_msg,
                                 clarification_answers |-> answers,
                                 previous_intake |-> << >>,
                                 selected_approach |-> approach])
              ELSE /\ ws' = [ws EXCEPT !.frames = @ + 1,
                                       !.pending_clarification_answers = "none"]
                   /\ UNCHANGED <<pc, args, intake, events, calls, selection, metadata, env>>
    /\ UNCHANGED <<keys, rt, an, fn>>

\* The async-for loop of a handler ends when the generator is exhausted;
\* the approach_selection handler then resets the pending answers (line 190).
WsTurnEnd ==
    /\ TurnOver /\ ws.handling # ""
    /\ ws' = [ws EXCEPT
                !.handling = "",
                !.pending_clarification_answers =
                    IF ws.handling = "approach_selection" THEN "none" ELSE @,
                !.clarification_sent = @ \/ Emitted("clarification"),
                !.approach_sent = @ \/ (ws.clarification_sent /\ Emitted("approach_proposal"))]
    /\ pc' = "idle"
    /\ args' = NoArgs
    /\ intake' = NoIntake
    /\ events' = << >>
    /\ calls' = << >>
    /\ selection' = NoSelection
    /\ metadata' = NoMetadata
    /\ env' = NoEnv
    /\ UNCHANGED <<keys, rt, an, fn>>

InitChat ==
    /\ keys \in Keys
    /\ TurnIdle
    /\ rt = NoRouterCall
    /\ an = NoAnalyzerCall
    /\ ws = NoWs
    /\ fn = NoCall

NextChat ==
    \/ WsMessage
    \/ WsClarificationResponse
    \/ WsApproachSelection
    \/ WsTurnEnd
    \/ Turn

SpecChat == InitChat /\ [][NextChat]_vars

(***************************************************************************)
(* Specification of generate_clarifications and generate_approach_proposals *)
(* as functions of the credentials and the model service's answer.         *)
(***************************************************************************)
\* The sequences over S of length at most n.
SeqsUpTo(S, n) == UNION {[1..m -> S] : m \in 0..n}

ClarifierReplies ==
    {[kind |-> "throw", items |-> << >>]} \cup
    [kind : {"json"}, items : SeqsUpTo(QuestionData, 4 + ExtraItems)]

ProposerReplies ==
    {[kind |-> "throw", items |-> << >>]} \cup
    [kind : {"json"}, items : SeqsUpTo(ApproachData, 3 + ExtraItems)]

ClarifierCall ==
    /\ fn.name = "generate_clarifications" /\ ~fn.done
    /\ fn' = [fn EXCEPT !.done = TRUE, !.out = generate_clarifications(fn.reply, keys)]
    /\ UNCHANGED <<keys, rt, an, pc, args, intake, events, calls, selection, metadata, env, ws>>

ProposerCall ==
    /\ fn.name = "generate_approach_proposals" /\ ~fn.done
    /\ fn' = [fn EXCEPT !.done = TRUE, !.out = generate_approach_proposals(fn.reply, keys)]
    /\ UNCHANGED <<keys, rt, an, pc, args, intake, events, calls, selection, metadata, env, ws>>

InitClarifier ==
    /\ keys \in Keys
    /\ \/ fn \in [name : {"generate_clarifications"}, reply : ClarifierReplies,
                  done : {FALSE},
                  out : {[questions |-> 0, needs_clarification |-> FALSE,
                          defaults |-> << >>]}]
       \/ fn \in [name : {"generate_approach_proposals"}, reply : ProposerReplies,
                  done : {FALSE}, out : {[approaches |-> 0, recommended |-> << >>]}]
    /\ rt = NoRouterCall
    /\ an = NoAnalyzerCall
    /\ TurnIdle
    /\ ws = NoWs

NextClarifier ==
    \/ ClarifierCall
    \/ ProposerCall

SpecClarifier == InitClarifier /\ [][NextClarifier]_vars

(***************************************************************************)
(* backend/skills/skill_engine.py: select_skills.  Scores are in           *)
(* thousandths (effectiveness_score 500 is the column's default 0.5).      *)
(***************************************************************************)
\* Generic rows a catalog holds beyond the five select_skills keeps.
ExtraSkills == 1

\* backend/database.py, class Skill: the columns select_skills reads or writes.
Skill(name, active, best_for, lo, hi, effectiveness, usage, positive, negative) ==
    [name |-> name, active |-> active, best_for_task_types |-> best_for,
     complexity_range_min |-> lo, complexity_range_max |-> hi,
     effectiveness_score |-> effectiveness, usage_count |-> usage,
     positive_feedback_count |-> positive, negative_feedback_count |-> negative]

\* lines 54-63
Score(skill, task_type) ==
    skill.effectiveness_score
    + (IF task_type \in skill.best_for_task_types THEN 200 ELSE 0)
    + (IF skill.usage_count > 0
       THEN (100 * skill.positive_feedback_count)
            \div Max(1, skill.positive_feedback_count + skill.negative_feedback_count)
       ELSE 0)

\* lines 45-52: task_matches and in_complexity_range
IsCandidate(skill, task_type, complexity) ==
    /\ task_type \in skill.best_for_task_types \/ skill.best_for_task_types = {}
    /\ skill.complexity_range_min <= complexity
    /\ complexity <= skill.complexity_range_max

\* lines 43-68
Candidates(all_skills, task_type, complexity) ==
    LET kept == SelectSeq(all_skills, LAMBDA sk : IsCandidate(sk, task_type, complexity))
    IN  [i \in 1..Len(kept) |-> [skill |-> kept[i], score |-> Score(kept[i], task_type)]]

\* list.sort(key=score, reverse=True): descending, equal scores keep their order.
RECURSIVE SortByScore(_)
SortByScore(items) ==
    IF items = << >> THEN << >>
    ELSE LET i == CHOOSE j \in 1..Len(items) :
                    /\ \A m \in 1..Len(items) : items[m].score <= items[j].score
                    /\ \A m \in 1..(j - 1) : items[m].score < items[j].score
         IN  <<items[i]>> \o
             SortByScore(SubSeq(items, 1, i - 1) \o SubSeq(items, i + 1, Len(items)))

\* user_profile.get("technical_level", "semi_technical")
TechnicalLevel(user_profile) ==
    IF user_profile.technical_level = MissingField
    THEN "semi_technical" ELSE user_profile.technical_level

\* lines 111-114
WantsConcise(user_profile) ==
    TechnicalLevel(user_profile) = "expert" \/ user_profile.detail_level = "brief"

\* lines 116-121 and 125-130: append the first active row of that name,
\* unless a selected entry already has the name.
AddNamed(selected, all_skills, name, score) ==
    IF /\ \A i \in 1..Len(selected) : selected[i].skill.name # name
       /\ \E j \in 1..Len(all_skills) : all_skills[j].name = name /\ all_skills[j].active
    THEN LET j == CHOOSE m \in 1..Len(all_skills) :
                     /\ all_skills[m].name = name /\ all_skills[m].active
                     /\ \A q \in 1..(m - 1) :
                            ~(all_skills[q].name = name /\ all_skills[q].active)
         IN  Append(selected, [skill |-> all_skills[j], score |-> score])
    ELSE selected

\* Profile adjustments that keep every entry.
ProfileAdjustmentsUncapped(selected, user_profile, task_type, all_skills) ==
    LET s1 == IF WantsConcise(user_profile)
              THEN AddNamed(selected, all_skills, "concise_mode", 900) ELSE selected
        s2 == IF task_type = "code"
                 /\ TechnicalLevel(user_profile) \in {"technical", "expert"}
              THEN AddNamed(s1, all_skills, "error_handling_focus", 850) ELSE s1
    IN  SortByScore(s2)

\* lines 99-134
_apply_profile_adjustments(selected, user_profile, task_type, all_skills) ==
    LET s1 == IF WantsConcise(user_profile)
              THEN AddNamed(selected, all_skills, "concise_mode", 900) ELSE selected
        s2 == IF task_type = "code"
                 /\ TechnicalLevel(user_profile) \in {"technical", "expert"}
              THEN AddNamed(s1, all_skills, "error_handling_focus", 850) ELSE s1
    IN  Take(SortByScore(s2), 6)

\* lines 36-78: the entries select_skills settles on; db is the skills table
SelectedSkills(task_type, complexity, user_profile, db) ==
    LET all_skills == SelectSeq(db, LAMBDA sk : sk.active)
        selected == Take(SortByScore(Candidates(all_skills, task_type, complexity)), 5)
    IN  IF user_profile.given = "some"
        THEN _apply_profile_adjustments(selected, user_profile, task_type, all_skills)
        ELSE selected

\* A selection that returns the skills and leaves the table as it was.
SelectSkillsWithoutCount(task_type, complexity, user_profile, session, db) ==
    IF session # "ok"
    THEN [result |-> << >>, db |-> db]
    ELSE LET selected == SelectedSkills(task_type, complexity, user_profile, db)
         IN  [result |-> [i \in 1..Len(selected) |-> selected[i].skill], db |-> db]

\* lines 16-96: the list returned and the table after the call.  session is
\* "none" (no session), "fails" (a query, a JSON column or the commit
\* raises) or "ok".
select_skills(task_type, complexity, user_profile, session, db) ==
    IF session # "ok"
    THEN [result |-> << >>, db |-> db]
    ELSE LET selected == SelectedSkills(task_type, complexity, user_profile, db)
             names == {selected[i].skill.name : i \in 1..Len(selected)}
             used(sk) == [sk EXCEPT !.usage_count = @ + 1]
         IN  [result |-> [i \in 1..Len(selected) |-> used(selected[i].skill)],
              db |-> [j \in 1..Len(db) |->
                        IF db[j].active /\ db[j].name \in names
                        THEN used(db[j]) ELSE db[j]]]

(***************************************************************************)
(* Specification of select_skills as a function of the request, the        *)
(* profile and the skills table.                                           *)
(***************************************************************************)
\* The i-th generic row of a table: the rows differ in the task types they
\* are best for, their complexity range and their feedback counters.
GenericSkill(i, effectiveness) ==
    Skill("skill_" \o ToString(i), TRUE,
          CASE i % 3 = 0 -> {} [] i % 3 = 1 -> {"code"} [] OTHER -> {"code", "writing"},
          IF i % 4 = 0 THEN 4 ELSE 1, IF i % 4 = 0 THEN 8 ELSE 10,
          effectiveness, i % 2, i % 2, (i \div 2) % 2)

\* backend/skills/seed_skills.py: the two rows the profile adjustments name,
\* as seeded ("seed") or seeded and then deactivated ("inactive").
NamedSkill(name, how) ==
    Skill(name, how # "inactive",
          IF name = "error_handling_focus" THEN {"code"} ELSE VALID_TASK_TYPES,
          IF name = "error_handling_focus" THEN 3 ELSE 1,
          10, 500, 0, 0, 0)

\* A skills table: n generic rows, then the named rows it holds.
SkillTable(c) ==
    [i \in 1..c.n |-> GenericSkill(i, c.effectiveness)]
    \o (IF c.concise_mode = "absent" THEN << >>
        ELSE <<NamedSkill("concise_mode", c.concise_mode)>>)
    \o (IF c.error_handling_focus = "absent" THEN << >>
        ELSE <<NamedSkill("error_handling_focus", c.error_handling_focus)>>)

SkillTables ==
    {SkillTable(c) : c \in [n : 0..(5 + ExtraSkills), effectiveness : {500, 950},
                            concise_mode : {"absent", "inactive", "seed"},
                            error_handling_focus : {"absent", "inactive", "seed"}]}

\* get_user_profile's result: None, a dict without the fields read here, or
\* a dict with them.
NoProfile == [given |-> "none", technical_level |-> MissingField, detail_level |-> MissingField]

UserProfiles ==
    {NoProfile, [NoProfile EXCEPT !.given = "empty"]} \cup
    [given : {"some"},
     technical_level : {MissingField, "semi_technical", "technical", "expert"},
     detail_level : {MissingField, "brief"}]

SkillCalls ==
    [name : {"select_skills"}, task_type : {"code", "writing"}, complexity : 1..10,
     user_profile : UserProfiles, session : {"ok"}, db : SkillTables,
     done : {FALSE}, out : {<< >>}]
    \cup
    [name : {"select_skills"}, task_type : {"code"}, complexity : {5},
     user_profile : UserProfiles, session : {"none", "fails"}, db : SkillTables,
     done : {FALSE}, out : {<< >>}]

\* One call; fn.before keeps the table as it was.
SkillCall ==
    /\ fn.name = "select_skills" /\ ~fn.done
    /\ LET r == select_skills(fn.task_type, fn.complexity, fn.user_profile,
                              fn.session, fn.db)
       IN  fn' = [fn EXCEPT !.done = TRUE, !.out = r.result, !.db = r.db]
    /\ UNCHANGED <<keys, rt, an, pc, args, intake, events, calls, selection, metadata, env, ws>>

InitSkills ==
    /\ keys = [gemini |-> TRUE, anthropic |-> TRUE]
    /\ \E c \in SkillCalls :
          fn = [name |-> c.name, task_type |-> c.task_type, complexity |-> c.complexity,
                user_profile |-> c.user_profile, session |-> c.session, db |-> c.db,
                before |-> c.db, done |-> c.done, out |-> c.out]
    /\ rt = NoRouterCall
    /\ an = NoAnalyzerCall
    /\ TurnIdle
    /\ ws = NoWs

NextSkills == SkillCall

SpecSkills == InitSkills /\ [][NextSkills]_vars

(***************************************************************************)
(* backend/mcps/mcp_selector.py: select_mcps                               *)
(***************************************************************************)
\* Most rows of the tools table.
MaxTools == 2
\* Most calls of select_mcps against one table.
MaxMcpCalls == 2

\* backend/database.py, class MCPServer: the columns select_mcps reads.
MCPServer(id, enabled, requires_user_config, trigger_task_types, trigger_keywords, priority) ==
    [id |-> id, enabled |-> enabled, requires_user_config |-> requires_user_config,
     trigger_task_types |-> trigger_task_types, trigger_keywords |-> trigger_keywords,
     priority |-> priority]

\* A relevance test that reads the task types only.
IsRelevantByTypeOnly(mcp, task_type, intent) ==
    task_type \in mcp.trigger_task_types

\* lines 48-55: type_match or keyword_match.  intent is the set of keywords
\* that occur in the lower-cased intent text.
IsRelevant(mcp, task_type, intent) ==
    \/ task_type \in mcp.trigger_task_types
    \/ \E kw \in mcp.trigger_keywords : kw \in intent

\* A test that takes every tool for configured.
ConfigSatisfiedAlways(mcp, user_configs) == TRUE

\* lines 61-62
ConfigSatisfied(mcp, user_configs) ==
    ~mcp.requires_user_config \/ mcp.id \in user_configs

\* lines 64-81: the entry of a bucket
McpInfo(mcp, needs_setup) ==
    [id |-> mcp.id, priority |-> mcp.priority, needs_setup |-> needs_setup]

\* list.sort(key=priority): ascending, equal priorities keep their order.
RECURSIVE SortByPriority(_)
SortByPriority(items) ==
    IF items = << >> THEN << >>
    ELSE LET i == CHOOSE j \in 1..Len(items) :
                    /\ \A m \in 1..Len(items) : items[j].priority <= items[m].priority
                    /\ \A m \in 1..(j - 1) : items[j].priority < items[m].priority
         IN  <<items[i]>> \o
             SortByPriority(SubSeq(items, 1, i - 1) \o SubSeq(items, i + 1, Len(items)))

NoBuckets == [active |-> << >>, recommended |-> << >>]

\* lines 16-96.  session is "none" (no session), "fails" (a query or a JSON
\* column raises) or "ok".
select_mcps(task_type, intent, session, all_mcps, user_configs) ==
    IF session # "ok"
    THEN NoBuckets
    ELSE LET usable == SelectSeq(all_mcps,
                           LAMBDA m : IsRelevant(m, task_type, intent) /\ m.enabled)
             ready == SelectSeq(usable, LAMBDA m : ConfigSatisfied(m, user_configs))
             unready == SelectSeq(usable, LAMBDA m : ~ConfigSatisfied(m, user_configs))
         IN  [active |-> SortByPriority([i \in 1..Len(ready) |->
                                            McpInfo(ready[i], FALSE)]),
              recommended |-> SortByPriority([i \in 1..Len(unready) |->
                                                 McpInfo(unready[i], TRUE)])]

(***************************************************************************)
(* Specification of repeated select_mcps calls against one tools table.    *)
(***************************************************************************)
\* The tables: row i has id i and priority n - i, so that sorting reorders.
McpTables ==
    UNION {{[i \in 1..n |-> MCPServer(i, c[i].enabled, c[i].requires_user_config,
                                      c[i].trigger_task_types, c[i].trigger_keywords,
                                      n - i)] :
              c \in [1..n -> [enabled : BOOLEAN, requires_user_config : BOOLEAN,
                              trigger_task_types : {{}, {"code"}},
                              trigger_keywords : {{}, {"github"}}]]} :
           n \in 0..MaxTools}

McpCall ==
    /\ fn.name = "select_mcps" /\ fn.calls < MaxMcpCalls
    /\ \E session \in {"ok", "none", "fails"} :
          LET out == select_mcps(fn.task_type, fn.intent, session, fn.db, fn.user_configs)
          IN  fn' = [fn EXCEPT !.calls = @ + 1, !.session = session, !.out = out,
                               !.earlier = IF fn.session = "ok" THEN <<fn.out>> ELSE @]
    /\ UNCHANGED <<keys, rt, an, pc, args, intake, events, calls, selection, metadata, env, ws>>

InitMcps ==
    /\ keys = [gemini |-> TRUE, anthropic |-> TRUE]
    /\ \E db \in McpTables, task_type \in {"code", "writing"}, intent \in {{}, {"github"}} :
       \E user_configs \in SUBSET (1..Len(db)) :
          fn = [name |-> "select_mcps", task_type |-> task_type, intent |-> intent,
                db |-> db, user_configs |-> user_configs, before |-> db,
                calls |-> 0, session |-> "", out |-> NoBuckets, earlier |-> << >>]
    /\ rt = NoRouterCall
    /\ an = NoAnalyzerCall
    /\ TurnIdle
    /\ ws = NoWs

NextMcps == McpCall

SpecMcps == InitMcps /\ [][NextMcps]_vars

(***************************************************************************)
(* Specification of execute_prompt on every selection select_model         *)
(* returns (orchestrator.py lines 212-226).                                *)
(***************************************************************************)
ExecutorCall ==
    /\ fn.name = "execute_prompt" /\ ~fn.done
    /\ LET sel == select_model(fn.task_type, fn.complexity, fn.recommended, keys)
       IN  fn' = [fn EXCEPT !.done = TRUE, !.sel = sel,
                            !.out = execute_prompt(sel, fn.primary_ok, fn.fallback_ok, keys)]
    /\ UNCHANGED <<keys, rt, an, pc, args, intake, events, calls, selection, metadata, env, ws>>

InitExecutor ==
    /\ keys \in Keys
    /\ fn \in [name : {"execute_prompt"}, task_type : RouterTaskTypes,
               complexity : 1..10, recommended : RouterHints,
               primary_ok : BOOLEAN, fallback_ok : BOOLEAN,
               done : {FALSE}, sel : {NoSelection}, out : {NoResult}]
    /\ rt = NoRouterCall
    /\ an = NoAnalyzerCall
    /\ TurnIdle
    /\ ws = NoWs

NextExecutor == ExecutorCall

SpecExecutor == InitExecutor /\ [][NextExecutor]_vars

(***************************************************************************)
(* backend/core/optimizer.py: build_optimized_prompt.  A text is modelled  *)
(* by its length; the template by the parts it is assembled from.          *)
(***************************************************************************)
\* Longest output of the optimizer model beyond the shortest one accepted.
ExtraChars == 1
\* Most blank characters around the optimizer model's output.
MaxPadding == 1

\* line 192: len(optimized) < 20
MIN_OPTIMIZED_LENGTH == 20

\* response.text.strip(): the padding goes, the rest stays
Strip(text) == [padding |-> 0, chars |-> text.chars]
Length(text) == text.padding + text.chars

\* lines 204-279.  selected_skills is "none", "names" (plain strings),
\* "records" or "records_without_template"; only records with a template
\* add the APPROACH section (lines 267-274).
_fallback_prompt(user_profile, selected_skills, project_context, selected_approach) ==
    {"role", "task", "request"}
    \cup (IF user_profile = "some" THEN {"user_context"} ELSE {})
    \cup (IF project_context THEN {"project_context"} ELSE {})
    \cup (IF Truthy(selected_approach) THEN {"chosen_approach"} ELSE {})
    \cup (IF selected_skills = "records" THEN {"skills"} ELSE {})

Template(parts) == [source |-> "template", chars |-> 0, parts |-> parts]

\* An acceptance test without the length check.
AcceptsOptimizedAnyLength(reply) == reply.kind = "text"

\* lines 190-196: response.text is None or the call throws (the except
\* branch), or the stripped text is empty or shorter than 20 characters
AcceptsOptimized(reply) ==
    reply.kind = "text" /\ Length(Strip(reply.text)) >= MIN_OPTIMIZED_LENGTH

\* lines 54-201.  service_calls counts the calls to the model service.
build_optimized_prompt(input, reply, k) ==
    IF ~k.gemini
    THEN [prompt |-> Template(_fallback_prompt(input.user_profile, input.selected_skills,
                                               input.project_context, "none")),
          service_calls |-> 0]
    ELSE IF AcceptsOptimized(reply)
    THEN [prompt |-> [source |-> "optimizer", chars |-> Length(Strip(reply.text)),
                      parts |-> {}],
          service_calls |-> 1]
    ELSE [prompt |-> Template(_fallback_prompt(input.user_profile, input.selected_skills,
                                               input.project_context,
                                               input.selected_approach)),
          service_calls |-> 1]

(***************************************************************************)
(* Specification of build_optimized_prompt as a function of its inputs,    *)
(* the credentials and the model service's answer.                         *)
(***************************************************************************)
NoText == [padding |-> 0, chars |-> 0]

\* The call throws, response.text is None, or it is a text.
OptimizerReplies ==
    {[kind |-> "throw", text |-> NoText], [kind |-> "none", text |-> NoText]} \cup
    [kind : {"text"},
     text : [padding : 0..MaxPadding, chars : 0..(MIN_OPTIMIZED_LENGTH + ExtraChars)]]

OptimizerInputs ==
    [user_profile : {"none", "some"},
     selected_skills : {"none", "names", "records", "records_without_template"},
     project_context : BOOLEAN,
     selected_approach : {"none", "some"}]

OptimizerCall ==
    /\ fn.name = "build_optimized_prompt" /\ ~fn.done
    /\ fn' = [fn EXCEPT !.done = TRUE,
                        !.out = build_optimized_prompt(fn.input, fn.reply, keys)]
    /\ UNCHANGED <<keys, rt, an, pc, args, intake, events, calls, selection, metadata, env, ws>>

InitOptimizer ==
    /\ keys \in Keys
    /\ fn \in [name : {"build_optimized_prompt"}, input : OptimizerInputs,
               reply : OptimizerReplies, done : {FALSE},
               out : {[prompt |-> Template({}), service_calls |-> 0]}]
    /\ rt = NoRouterCall
    /\ an = NoAnalyzerCall
    /\ TurnIdle
    /\ ws = NoWs

NextOptimizer == OptimizerCall

SpecOptimizer == InitOptimizer /\ [][NextOptimizer]_vars

(***************************************************************************)
(* Specification of select_skills calls of concurrent turns, each on a     *)
(* session of its own, on one skill S of the shared table.  A call reads   *)
(* the rows (an await), then increments in Python and commits (the next    *)
(* await); the calls of other turns run between the two.                   *)
(***************************************************************************)
ConcurrentTurns == 2
MaxUsage == 3

\* A call before its read: returns says whether S will be in its list.
SkillTurns == [pc : {"start"}, returns : BOOLEAN, seen : {0}]

\* skill_engine.py lines 36-40: await session.execute(select(Skill)...);
\* the ORM row of the session holds the usage_count read here.
SkillRead(t) ==
    /\ fn.name = "select_skills_concurrent"
    /\ fn.turns[t].pc = "start"
    /\ fn' = [fn EXCEPT !.turns[t].pc = "read", !.turns[t].seen = fn.usage]
    /\ UNCHANGED <<keys, rt, an, pc, args, intake, events, calls, selection, metadata, env, ws>>

\* skill_engine.py lines 80-87 and 94-96: skill.usage_count += 1 on the row
\* the session read, then await session.commit(), which writes that value;
\* a commit that raises is caught and the call returns [].
SkillCommit(t) ==
    /\ fn.name = "select_skills_concurrent"
    /\ fn.turns[t].pc = "read"
    /\ \E ok \in BOOLEAN :
           IF ok
           THEN fn' = [fn EXCEPT !.turns[t].pc = "committed",
                                 !.usage = IF fn.turns[t].returns
                                           THEN fn.turns[t].seen + 1 ELSE @]
           ELSE fn' = [fn EXCEPT !.turns[t].pc = "failed"]
    /\ UNCHANGED <<keys, rt, an, pc, args, intake, events, calls, selection, metadata, env, ws>>

InitConcurrent ==
    /\ keys = [gemini |-> TRUE, anthropic |-> TRUE]
    /\ \E n \in 0..MaxUsage, turns \in [1..ConcurrentTurns -> SkillTurns] :
           fn = [name |-> "select_skills_concurrent", usage |-> n, before |-> n,
                 turns |-> turns]
    /\ rt = NoRouterCall
    /\ an = NoAnalyzerCall
    /\ TurnIdle
    /\ ws = NoWs

NextConcurrent ==
    \E t \in 1..ConcurrentTurns : SkillRead(t) \/ SkillCommit(t)

SpecConcurrent == InitConcurrent /\ [][NextConcurrent]_vars

(***************************************************************************)
(* Writing the files of a model response: write_files_to_disk              *)
(* (tools/project_scaffolder.py) and _extract_and_write_files              *)
(* (core/executor.py).  A path is a leading-slash flag and its segments;   *)
(* the root directory starts empty.                                        *)
(***************************************************************************)
MaxSegs == 2

Segments == {"a.py", "..", "http:"}

Paths == [abs : BOOLEAN, segs : UNION {[1..n -> Segments] : n \in 1..MaxSegs}]

\* os.path.normpath on the segments: ".." cancels the name before it, stays
\* when a relative path has nothing left to cancel, and is dropped at "/".
RECURSIVE NormSegs(_, _, _)
NormSegs(abs, segs, acc) ==
    IF segs = << >> THEN acc
    ELSE IF Head(segs) = ".."
         THEN IF acc # << >> /\ acc[Len(acc)] # ".."
              THEN NormSegs(abs, Tail(segs), SubSeq(acc, 1, Len(acc) - 1))
              ELSE IF abs THEN NormSegs(abs, Tail(segs), acc)
                   ELSE NormSegs(abs, Tail(segs), Append(acc, ".."))
         ELSE NormSegs(abs, Tail(segs), Append(acc, Head(segs)))

normpath(p) == [abs |-> p.abs, segs |-> NormSegs(p.abs, p.segs, << >>)]

\* Path.__truediv__ then the write: an absolute right operand replaces the
\* folder, and the file system resolves "..", so the file lands at the
\* normalized place.  Relative places are relative to the folder.
Target(p) == normpath(p)

IsProperPrefix(a, b) == Len(a) < Len(b) /\ SubSeq(b, 1, Len(a)) = a

\* mkdir(parents=True, exist_ok=True) and write_text raise when the target
\* is a directory (the folder, one of its ancestors, or the parent of a file
\* already written) or a file stands where a directory is needed.
WriteRaises(disk, t) ==
    \/ \A i \in 1..Len(t.segs) : t.segs[i] = ".."
    \/ \E f \in disk : f.abs = t.abs /\
           (IsProperPrefix(f.segs, t.segs) \/ IsProperPrefix(t.segs, f.segs))

startswith_http(p) == ~p.abs /\ p.segs[1] = "http:"

\* project_scaffolder.py lines 120-124
Suspicious(p) ==
    LET normalized == normpath(p)
    IN  (normalized.segs # << >> /\ normalized.segs[1] = "..") \/ normalized.abs

NothingWritten == [written |-> << >>, disk |-> {}, raised |-> FALSE]

\* project_scaffolder.py lines 111-132: the loop over files; an exception
\* of the write leaves the function, with the earlier files on disk.
RECURSIVE write_files_to_disk(_, _)
write_files_to_disk(files, st) ==
    IF files = << >> \/ st.raised THEN st
    ELSE LET filepath == Head(files).path
         IN  IF Suspicious(filepath)
             THEN write_files_to_disk(Tail(files), st)
             ELSE IF WriteRaises(st.disk, Target(filepath))
                  THEN [st EXCEPT !.raised = TRUE]
                  ELSE write_files_to_disk(Tail(files),
                           [st EXCEPT !.written = Append(@, filepath),
                                      !.disk = @ \cup {Target(filepath)}])

InList(x, seq) == \E i \in 1..Len(seq) : seq[i] = x

\* executor.py lines 165-176 (File: headers) and 184-196 (create markers):
\* the header loop skips paths that start with http, the marker loop skips
\* paths already created; a failed write is caught and the loop goes on.
RECURSIVE extract_and_write_files(_, _)
extract_and_write_files(matches, st) ==
    IF matches = << >> THEN st
    ELSE LET m == Head(matches)
             filepath == m.path
             skipped == IF m.marker = "file" THEN startswith_http(filepath)
                        ELSE InList(filepath, st.written)
         IN  IF skipped \/ WriteRaises(st.disk, Target(filepath))
             THEN extract_and_write_files(Tail(matches), st)
             ELSE extract_and_write_files(Tail(matches),
                      [st EXCEPT !.written = Append(@, filepath),
                                 !.disk = @ \cup {Target(filepath)}])

\* executor.py lines 159-163: a File: header ends in a dot and an extension
HeaderMatches(p) == p.segs[Len(p.segs)] = "a.py"

\* The matches of a response in the order the loops take them: the File:
\* headers first, then the create markers.
Responses ==
    {ms \in [1..2 -> [marker : {"file", "create"}, path : Paths]] :
        /\ \A i \in 1..2 : ms[i].marker = "file" => HeaderMatches(ms[i].path)
        /\ ~(ms[1].marker = "create" /\ ms[2].marker = "file")}

\* project_scaffolder.py line 294
WriteFilesToDisk ==
    /\ fn.name = "materialize" /\ fn.pc = "start"
    /\ fn' = [fn EXCEPT !.pc = "done", !.writer = "write_files_to_disk",
                        !.out = write_files_to_disk(fn.files, NothingWritten)]
    /\ UNCHANGED <<keys, rt, an, pc, args, intake, events, calls, selection, metadata, env, ws>>

\* executor.py lines 92 and 134
ExtractAndWriteFiles ==
    /\ fn.name = "materialize" /\ fn.pc = "start"
    /\ fn' = [fn EXCEPT !.pc = "done", !.writer = "_extract_and_write_files",
                        !.out = extract_and_write_files(fn.files, NothingWritten)]
    /\ UNCHANGED <<keys, rt, an, pc, args, intake, events, calls, selection, metadata, env, ws>>

InitMaterialize ==
    /\ keys = [gemini |-> TRUE, anthropic |-> TRUE]
    /\ \E files \in Responses :
           fn = [name |-> "materialize", pc |-> "start", writer |-> "",
                 files |-> files, out |-> NothingWritten]
    /\ rt = NoRouterCall
    /\ an = NoAnalyzerCall
    /\ TurnIdle
    /\ ws = NoWs

NextMaterialize == WriteFilesToDisk \/ ExtractAndWriteFiles

SpecMaterialize == InitMaterialize /\ [][NextMaterialize]_vars

(***************************************************************************)
(* remember (memory/core_memory.py): storing the memories extracted from a *)
(* conversation.  A content is the set of the words it holds.              *)
(***************************************************************************)
MaxCandidates == 2
MaxExisting == 1

\* Every word is five characters or longer, so that a content with a word
\* in it passes the length test of line 183.
Words == {"Python", "python", "prefers", "typed", "tests"}

Contents == SUBSET Words

\* str.lower on a word
Lower(w) == IF w = "Python" THEN "python" ELSE w

\* lines 126 and 191, then 195-196: set(content.lower().split())
LowerWords(content) == {Lower(w) : w \in content}

\* lines 197-200: the overlap is computed for candidates of more than three
\* distinct words only
IsSimilar(content_words, existing_words) ==
    Cardinality(content_words) > 3 /\
    10 * Cardinality(content_words \cap existing_words) > 7 * Cardinality(content_words)

\* lines 179-217: the loop over new_memories; stored holds the positions of
\* the candidates added to the session, existing_contents grows with them.
RECURSIVE StoreLoop(_, _, _, _)
StoreLoop(new_memories, i, existing_contents, stored) ==
    IF i > Len(new_memories) THEN stored
    ELSE LET content == new_memories[i]
             is_duplicate ==
                 \E k \in 1..Len(existing_contents) :
                     IsSimilar(LowerWords(content), existing_contents[k])
         IN  IF content = {} \/ is_duplicate
             THEN StoreLoop(new_memories, i + 1, existing_contents, stored)
             ELSE StoreLoop(new_memories, i + 1,
                            Append(existing_contents, LowerWords(content)),
                            Append(stored, i))

\* lines 121-126
LoadExisting(existing) == [k \in 1..Len(existing) |-> LowerWords(existing[k])]

\* lines 97-225: the extraction call or the commit may raise, which the
\* handler of lines 223-225 swallows with nothing stored.
Remember ==
    /\ fn.name = "remember" /\ fn.pc = "start"
    /\ keys.gemini
    /\ \E outcome \in {"stored", "call_raises", "commit_raises"} :
           fn' = [fn EXCEPT !.pc = "done", !.outcome = outcome,
                            !.stored = IF outcome = "stored"
                                       THEN StoreLoop(fn.new_memories, 1,
                                                      LoadExisting(fn.existing), << >>)
                                       ELSE << >>]
    /\ UNCHANGED <<keys, rt, an, pc, args, intake, events, calls, selection, metadata, env, ws>>

InitMemory ==
    /\ keys = [gemini |-> TRUE, anthropic |-> TRUE]
    /\ \E existing \in UNION {[1..n -> Contents \ {{}}] : n \in 0..MaxExisting},
          new_memories \in UNION {[1..n -> Contents] : n \in 0..MaxCandidates} :
           fn = [name |-> "remember", pc |-> "start", outcome |-> "",
                 existing |-> existing, new_memories |-> new_memories, stored |-> << >>]
    /\ rt = NoRouterCall
    /\ an = NoAnalyzerCall
    /\ TurnIdle
    /\ ws = NoWs

NextMemory == Remember

SpecMemory == InitMemory /\ [][NextMemory]_vars

(***************************************************************************)
(* Properties                                                              *)
(***************************************************************************)
CountEmitted(type) == Cardinality({i \in 1..Len(events) : events[i].type = type})
Called(stage) == \E i \in 1..Len(calls) : calls[i] = stage
PastIntake == pc \notin {"idle", "start", "intake"}
PastGate == pc \notin {"idle", "start", "intake", "gate"}
LaterStages ==
    {"select_skills", "select_mcps", "search_and_summarize", "build_optimized_prompt",
     "select_model", "execute_prompt"}
NoLaterStage == \A i \in 1..Len(calls) : calls[i] \notin LaterStages
\* The turn has gone on to skill selection: it is about to run it or has run it.
WentOnToSkills == pc # "suspended" /\ (pc = "skills" \/ Called("select_skills"))
\* The call that follows the first call of `stage`, "" if there is none yet.
CallAfter(stage, k) ==
    IF ~Called(stage) THEN ""
    ELSE LET i == CHOOSE j \in 1..Len(calls) : calls[j] = stage
         IN  IF Len(calls) >= i + k THEN calls[i + k] ELSE ""

\* C1: select_model never returns provider "claude", nor the Claude Sonnet
\* model as primary, when the Anthropic credential is absent: for every task
\* type, every complexity in 1..10 and every recommendation hint.
C1_NoClaudeWithoutKey ==
    (rt.done /\ ~keys.anthropic) =>
        /\ rt.out.provider # "claude"
        /\ rt.out.primary_model # CLAUDE_SONNET

C1_Witness ==
    /\ rt.done /\ ~keys.anthropic
    /\ rt.task_type = "code" /\ rt.complexity = 10 /\ rt.recommended = "claude"
    /\ rt.out.provider = "gemini"

\* C2: in a fresh, not brainstorming-gated turn with confidence < 85 and no
\* answers, the clarifier is run; a clarification-request with 1..4 questions
\* is emitted iff the clarifier returned a question; after it the turn is
\* suspended, it is the last event and no later stage has run; with no
\* question the turn goes on to skill selection.
C2_LowConfidenceClarifies ==
    (/\ PastGate /\ ~Resumed(args) /\ ~RequiresBrainstorming(intake)
     /\ intake.confidence_score < 85 /\ ~Truthy(args.clarification_answers)) =>
        /\ Called("generate_clarifications")
        /\ Emitted("clarification") <=> env.questions >= 1
        /\ Emitted("clarification") =>
             /\ CountEmitted("clarification") = 1
             /\ events[Len(events)].type = "clarification"
             /\ events[Len(events)].n \in 1..4
             /\ pc = "suspended"
             /\ NoLaterStage
        /\ ~Emitted("clarification") => WentOnToSkills

C2_Witness ==
    /\ pc = "suspended" /\ ~Resumed(args) /\ ~RequiresBrainstorming(intake)
    /\ intake.confidence_score = 84 /\ args.clarification_answers = "none"
    /\ env.clarifier.n > 4
    /\ events[Len(events)] = Event("clarification", "", 4)

\* C3: in a fresh, not brainstorming-gated turn with confidence >= 85 (85
\* included) the clarifier is never invoked, no clarification-request is
\* emitted, and the stages after intake are skill selection, then tool selection.
C3_HighConfidenceSkips ==
    (/\ PastIntake /\ ~Resumed(args) /\ ~RequiresBrainstorming(intake)
     /\ intake.confidence_score >= 85) =>
        /\ ~Called("generate_clarifications")
        /\ ~Emitted("clarification")
        /\ pc # "suspended"
        /\ CallAfter("analyze_intent", 1) \in {"", "select_skills"}
        /\ CallAfter("analyze_intent", 2) \in {"", "select_mcps"}
        /\ PastGate => WentOnToSkills

C3_Witness ==
    /\ ~Resumed(args) /\ ~RequiresBrainstorming(intake)
    /\ env.intake.kind = "json" /\ env.intake.confidence_score = Num(85)
    /\ intake.confidence_score = 85
    /\ args.clarification_answers = "none"
    /\ CallAfter("analyze_intent", 2) = "select_mcps"

\* C4 (as claimed): a first pass, with no answers, over a task the analysis
\* marks as requiring brainstorming always emits a clarification-request.
C4_BrainstormingAlwaysClarifies ==
    (/\ TurnOver /\ env.asked /\ env.intake.kind = "json"
     /\ env.intake.requires_brainstorming
     /\ ~Truthy(args.clarification_answers)) =>
        Emitted("clarification")

\* C5: a resumed turn never invokes the analyzer, and the confidence it
\* gates on and reports in the final message's metadata is 95, whatever the
\* prior record carried.
C5_ResumedConfidence95 ==
    Resumed(args) =>
        /\ ~Called("analyze_intent")
        /\ PastIntake => intake.confidence_score = 95
        /\ Emitted("message") => metadata.confidence_score = 95

C5_Witness ==
    /\ Resumed(args) /\ args.previous_intake[1].confidence_score = 60
    /\ Emitted("message") /\ metadata.confidence_score = 95

\* C6 (as claimed): a resumed turn emits neither a clarification-request nor
\* an approach-request and does not suspend, for every prior intent record.
C6_ResumedNeverSuspends ==
    Resumed(args) =>
        /\ ~Emitted("clarification")
        /\ ~Emitted("approach_proposal")
        /\ pc # "suspended"

\* C6 (amended): a resumed turn never runs the clarifier and never emits a
\* clarification-request; it emits an approach-request and suspends only when
\* the prior record has requires_brainstorming = true, no approach is
\* selected and the proposer returned a proposal; otherwise, given a prior
\* record that holds the fields the turn reads, it goes straight to skill
\* selection.
C6_ResumedSuspendsOnlyForApproach ==
    Resumed(args) =>
        /\ ~Called("generate_clarifications")
        /\ ~Emitted("clarification")
        /\ Emitted("approach_proposal") =>
             /\ "requires_brainstorming" \in DOMAIN args.previous_intake[1]
             /\ args.previous_intake[1].requires_brainstorming
             /\ ~Truthy(args.selected_approach)
             /\ env.approaches >= 1
        /\ pc = "suspended" => Emitted("approach_proposal")
        /\ (PastGate /\ ~Emitted("approach_proposal")
                /\ CanLogIntake(args.previous_intake[1])) => WentOnToSkills
        /\ (~Called("generate_approach_proposals")
                /\ CanLogIntake(args.previous_intake[1])) =>
             CallAfter("recall_memories", 1) \in {"", "select_skills"}

C6_Witness ==
    /\ Resumed(args) /\ pc = "suspended"
    /\ events[Len(events)].type = "approach_proposal"

\* C7: for an intent with requires_brainstorming = true, answers supplied and
\* no approach selected, the proposer is run; with a proposal the turn emits
\* exactly one approach-request and suspends before any later stage; with
\* none it goes on to skill selection and execution in the same turn.
C7_ApproachPhase ==
    (/\ PastGate /\ RequiresBrainstorming(intake)
     /\ Truthy(args.clarification_answers) /\ ~Truthy(args.selected_approach)) =>
        /\ Called("generate_approach_proposals")
        /\ env.approaches >= 1 =>
             /\ CountEmitted("approach_proposal") = 1
             /\ events[Len(events)].type = "approach_proposal"
             /\ pc = "suspended"
             /\ NoLaterStage
        /\ env.approaches = 0 =>
             /\ ~Emitted("approach_proposal")
             /\ WentOnToSkills
             /\ pc = "done" => Called("execute_prompt")

C7_Witness ==
    /\ RequiresBrainstorming(intake)
    /\ Truthy(args.clarification_answers) /\ ~Truthy(args.selected_approach)
    /\ env.proposer.kind = "throw" /\ env.approaches = 0
    /\ Called("generate_approach_proposals")
    /\ Emitted("message") /\ pc = "done"

\* C9: every record analyze_intent returns has 1 <= complexity <= 10 and
\* 0 <= confidence <= 100, whatever the model service answered.
C9_IntakeInRange ==
    an.done =>
        /\ an.out.complexity \in 1..10
        /\ an.out.confidence_score \in 0..100

C9_Witness ==
    /\ an.done /\ an.reply.kind = "json" /\ an.reply.typed_ok
    /\ an.reply.complexity = Num(10 + RawSlack)
    /\ an.reply.confidence_score = Num(0 - RawSlack)
    /\ an.out.complexity = 10 /\ an.out.confidence_score = 0

\* C10: when the model service throws or answers unparsable output during
\* intake, the turn gets the fallback record, with confidence exactly 60 and
\* the fallback notice in ambiguity_areas, and no error event; a fresh turn
\* built on it with no answers always runs the clarifier.
C10_FallbackClarifies ==
    (PastIntake /\ env.asked /\ env.intake.kind # "json") =>
        /\ intake.confidence_score = 60
        /\ Len(intake.ambiguity_areas) > 0
        /\ \E i \in 1..Len(intake.ambiguity_areas) :
               intake.ambiguity_areas[i] = FallbackNotice
        /\ ~RequiresBrainstorming(intake)
        /\ (pc \in {"gate", "skills", "suspended"}) => ~Emitted("error")
        /\ (PastGate /\ ~Truthy(args.clarification_answers)) =>
               Called("generate_clarifications")

C10_Witness ==
    /\ env.asked /\ env.intake.kind = "throw"
    /\ args.clarification_answers = "empty"
    /\ Called("generate_clarifications")
    /\ pc = "suspended"

\* C8 (as claimed): whenever the executor is invoked for a request whose
\* intent requires brainstorming (the analysis of the request says so, or the
\* turn's intake record does), earlier turns of that request have emitted a
\* clarification-request and then an approach-request.
C8_ExecutorOnlyAfterBothRequests ==
    (/\ Called("execute_prompt")
     /\ \/ RequiresBrainstorming(intake)
        \/ env.asked /\ env.intake.kind = "json" /\ env.intake.requires_brainstorming) =>
        /\ ws.clarification_sent
        /\ ws.approach_sent

\* C11: generate_clarifications never returns more than 4 questions, so every
\* clarification-request event of a turn carries between 1 and 4 questions,
\* the number the clarifier returned, however many the model service produced.
C11_AtMostFourQuestions ==
    /\ Called("generate_clarifications") => env.questions \in 0..4
    /\ \A i \in 1..Len(events) :
          events[i].type = "clarification" =>
             /\ events[i].n \in 1..4
             /\ events[i].n = env.questions
             /\ events[i].n <= env.clarifier.n

C11_Witness ==
    /\ Emitted("clarification")
    /\ env.clarifier.n = 4 + ExtraItems
    /\ env.questions = 4

\* C12 (as claimed): every question generate_clarifications returns has a
\* non-empty default, also when the model service omits the default field
\* or returns an empty one.
C12_DefaultsNonEmpty ==
    (fn.name = "generate_clarifications" /\ fn.done) =>
        \A i \in 1..Len(fn.out.defaults) : fn.out.defaults[i] # ""

\* C13 (as claimed): every non-empty result of generate_approach_proposals
\* carries 2 or 3 proposals, exactly one of them with recommended = true.
C13_TwoOrThreeOneRecommended ==
    (fn.name = "generate_approach_proposals" /\ fn.done /\ fn.out.approaches > 0) =>
        /\ fn.out.approaches \in 2..3
        /\ Cardinality({i \in 1..Len(fn.out.recommended) : fn.out.recommended[i]}) = 1

\* The profile adjustments run and add an entry that was not selected.
OverrideApplies ==
    /\ fn.user_profile.given = "some"
    /\ \/ WantsConcise(fn.user_profile)
       \/ fn.task_type = "code"
          /\ TechnicalLevel(fn.user_profile) \in {"technical", "expert"}

\* C14: select_skills returns at most 6 skills for every table, task type,
\* complexity and profile, at most 5 when no profile override applies, and
\* no skill twice.
C14_AtMostSixSkills ==
    (fn.name = "select_skills" /\ fn.done) =>
        /\ Len(fn.out) <= 6
        /\ ~OverrideApplies => Len(fn.out) <= 5
        /\ \A i, j \in 1..Len(fn.out) : fn.out[i].name = fn.out[j].name => i = j

C14_Witness ==
    /\ fn.name = "select_skills" /\ fn.done
    /\ OverrideApplies
    /\ Len(fn.out) = 6
    /\ Len(fn.before) > 7
    /\ \E i \in 1..6 : fn.out[i].name = "concise_mode"

\* C15 (as claimed): every skill select_skills returns has a complexity
\* range that contains the request's complexity, the skills added by the
\* profile overrides included.
C15_SkillsInComplexityRange ==
    (fn.name = "select_skills" /\ fn.done) =>
        \A i \in 1..Len(fn.out) :
            /\ fn.out[i].complexity_range_min <= fn.complexity
            /\ fn.complexity <= fn.out[i].complexity_range_max

\* The ids of the entries of a bucket.
Ids(bucket) == {bucket[i].id : i \in 1..Len(bucket)}
\* The row of the tools table with this id.
Tool(id) == fn.db[id]

\* C16: a tool is in the active bucket only if it is relevant, enabled, and
\* needs no configuration or has a stored one; a configuration-required tool
\* with no stored configuration is never active; no tool is in both buckets.
C16_ActiveOnlyWhenUsable ==
    (fn.name = "select_mcps" /\ fn.calls > 0) =>
        /\ \A id \in Ids(fn.out.active) :
              /\ IsRelevant(Tool(id), fn.task_type, fn.intent)
              /\ Tool(id).enabled
              /\ ~Tool(id).requires_user_config \/ id \in fn.user_configs
        /\ \A id \in 1..Len(fn.db) :
              (Tool(id).requires_user_config /\ id \notin fn.user_configs) =>
                  id \notin Ids(fn.out.active)
        /\ Ids(fn.out.active) \cap Ids(fn.out.recommended) = {}

C16_Witness ==
    /\ fn.name = "select_mcps" /\ fn.calls > 0
    /\ \E a \in Ids(fn.out.active), r \in Ids(fn.out.recommended) :
          /\ Tool(a).requires_user_config /\ a \in fn.user_configs
          /\ Tool(r).requires_user_config /\ r \notin fn.user_configs

\* A tool that requires configuration, has none stored and has a trigger
\* keyword occurring in the intent.
NeedsSetup(id) ==
    /\ Tool(id).requires_user_config
    /\ id \notin fn.user_configs
    /\ \E kw \in Tool(id).trigger_keywords : kw \in fn.intent

\* C17 (as claimed): such a tool is in the recommended bucket and not in the
\* active one after every call; repeated calls return identical buckets and
\* change no stored state.
C17_NeedsSetupAlwaysRecommended ==
    (fn.name = "select_mcps" /\ fn.calls > 0) =>
        /\ \A id \in 1..Len(fn.db) :
              NeedsSetup(id) =>
                  id \in Ids(fn.out.recommended) /\ id \notin Ids(fn.out.active)
        /\ \A i \in 1..Len(fn.earlier) : fn.out = fn.earlier[i]
        /\ fn.db = fn.before

\* C17 (amended): such a tool, when it is enabled, is in the recommended
\* bucket and not in the active one after every call that has a session and
\* whose reads succeed; a disabled one is in neither bucket; a call without
\* a session or whose reads fail returns two empty buckets; successful calls
\* against the unchanged table return identical buckets, and no call changes
\* the table.
C17_EnabledNeedsSetupRecommended ==
    (fn.name = "select_mcps" /\ fn.calls > 0) =>
        /\ \A id \in 1..Len(fn.db) :
              NeedsSetup(id) =>
                  /\ id \notin Ids(fn.out.active)
                  /\ id \in Ids(fn.out.recommended)
                        <=> (Tool(id).enabled /\ fn.session = "ok")
        /\ fn.session # "ok" => fn.out = NoBuckets
        /\ fn.session = "ok" => \A i \in 1..Len(fn.earlier) : fn.out = fn.earlier[i]
        /\ fn.db = fn.before

C17_Witness ==
    /\ fn.name = "select_mcps" /\ fn.calls = 2
    /\ fn.session = "ok" /\ fn.earlier # << >>
    /\ \E id \in Ids(fn.out.recommended) : NeedsSetup(id) /\ fn.task_type = "writing"
    /\ \E id \in 1..Len(fn.db) : NeedsSetup(id) /\ ~Tool(id).enabled

\* The primary attempt of the call failed.
PrimaryFailed == ~(fn.primary_ok /\ CanSucceed(fn.out.attempts[1], keys))

\* C18 (as claimed): when the primary attempt fails, the retry goes to the
\* fallback model under the default provider and is never sent to the
\* provider whose call just failed.
C18_RetryNeverToFailedProvider ==
    (fn.name = "execute_prompt" /\ fn.done /\ Len(fn.out.attempts) = 2) =>
        /\ fn.out.attempts[2] = Attempt("gemini", fn.sel.fallback_model)
        /\ fn.out.attempts[2].provider # fn.out.attempts[1].provider

\* C18 (amended): when the primary attempt fails and the fallback model is
\* another model than the primary, there is exactly one retry, on the
\* fallback model through the default provider (Gemini) whichever provider
\* failed: another provider when the primary provider was claude, the same
\* provider with another model when it was gemini; with the fallback model
\* equal to the primary there is no retry.
C18_RetryOnFallbackThroughGemini ==
    (fn.name = "execute_prompt" /\ fn.done) =>
        /\ Len(fn.out.attempts) \in 1..2
        /\ fn.out.attempts[1] = Attempt(fn.sel.provider, fn.sel.primary_model)
        /\ Len(fn.out.attempts) = 2 <=>
              (PrimaryFailed /\ fn.sel.fallback_model # fn.sel.primary_model)
        /\ Len(fn.out.attempts) = 2 =>
              /\ fn.out.attempts[2] = Attempt("gemini", fn.sel.fallback_model)
              /\ fn.out.attempts[2].model # fn.out.attempts[1].model
              /\ fn.out.attempts[2].provider # fn.out.attempts[1].provider
                    <=> fn.sel.provider = "claude"

C18_Witness ==
    /\ fn.name = "execute_prompt" /\ fn.done
    /\ fn.sel = ModelSelection(GEMINI_PRO, GEMINI_FLASH, "gemini")
    /\ fn.out.attempts = <<Attempt("gemini", GEMINI_PRO), Attempt("gemini", GEMINI_FLASH)>>
    /\ fn.out.fallback_used

\* C19: execute_prompt always returns a result, after at most two generation
\* attempts (the primary and at most one retry); when every attempt failed
\* the result is the apology with the error embedded and empty tool-call and
\* created-file lists, and otherwise it is a model's response.
C19_AtMostTwoAttemptsThenApology ==
    (fn.name = "execute_prompt" /\ fn.done) =>
        LET retried == Len(fn.out.attempts) = 2
            all_failed ==
                /\ PrimaryFailed
                /\ retried => ~(fn.fallback_ok /\ CanSucceed(fn.out.attempts[2], keys))
        IN  /\ Len(fn.out.attempts) \in 1..2
            /\ all_failed =>
                  /\ fn.out.content = "apology"
                  /\ fn.out.error /\ fn.out.error_text = "primary"
                  /\ fn.out.tool_calls_made = 0 /\ fn.out.files_created = 0
                  /\ fn.out.model_used = fn.sel.primary_model
            /\ ~all_failed =>
                  /\ fn.out.content = "response" /\ ~fn.out.error
                  /\ fn.out.model_used = fn.out.attempts[Len(fn.out.attempts)].model

C19_Witness ==
    /\ fn.name = "execute_prompt" /\ fn.done
    /\ Len(fn.out.attempts) = 2
    /\ keys.gemini /\ ~fn.fallback_ok
    /\ fn.out.content = "apology" /\ fn.out.error

\* C20: build_optimized_prompt always returns a non-empty instruction: with
\* the credential missing, the call throwing, or an output that is absent,
\* empty or shorter than 20 characters once stripped, it is the template,
\* assembled from the inputs alone (role, task and request always; the
\* skills section only for skill records with a template, none for plain
\* names) with no call when the credential is missing and no second call
\* otherwise; in every other case it is the optimizer's text.
C20_AlwaysAnInstruction ==
    (fn.name = "build_optimized_prompt" /\ fn.done) =>
        LET degraded == \/ ~keys.gemini
                        \/ fn.reply.kind # "text"
                        \/ fn.reply.text.chars < 20
            prompt == fn.out.prompt
        IN  /\ degraded <=> prompt.source = "template"
            /\ prompt.source = "template" =>
                  /\ {"role", "task", "request"} \subseteq prompt.parts
                  /\ "skills" \in prompt.parts <=> fn.input.selected_skills = "records"
                  /\ "user_context" \in prompt.parts <=> fn.input.user_profile = "some"
                  /\ "project_context" \in prompt.parts <=> fn.input.project_context
            /\ prompt.source # "template" =>
                  /\ prompt.source = "optimizer"
                  /\ prompt.chars = fn.reply.text.chars
                  /\ prompt.chars >= 20
            /\ fn.out.service_calls = IF keys.gemini THEN 1 ELSE 0

C20_Witness ==
    /\ fn.name = "build_optimized_prompt" /\ fn.done
    /\ keys.gemini /\ fn.reply.kind = "text"
    /\ fn.reply.text.chars = 19 /\ fn.reply.text.padding = 1
    /\ fn.input.selected_skills = "names"
    /\ fn.out.prompt.source = "template"
    /\ "skills" \notin fn.out.prompt.parts

\* Whether an event is the completion status.
IsComplete(e) == e.type = "status" /\ e.state = "complete"

\* C21: process_message never lets an exception out: when a stage raises
\* one that no local handler takes, the turn emits exactly one error event,
\* that event is the last of the turn, and no message or completion status
\* follows it; a turn in which nothing was raised emits no error event.
C21_ErrorEndsTurn ==
    /\ CountEmitted("error") <= 1
    /\ env.raised <=> Emitted("error")
    /\ env.raised =>
          /\ pc = "done"
          /\ CountEmitted("error") = 1
          /\ events[Len(events)].type = "error"
          /\ \A i \in 1..Len(events) : \A j \in (i + 1)..Len(events) :
                 events[i].type = "error" =>
                     events[j].type # "message" /\ ~IsComplete(events[j])

C21_Witness ==
    /\ env.raised /\ pc = "done"
    /\ Called("scaffold_project")
    /\ events[Len(events)].type = "error"

\* A turn started with the message alone: no prior record, no answers, no
\* chosen approach.
FreshTurn == ~HasPrevious(args) /\ args.clarification_answers = "none"
                 /\ ~Truthy(args.selected_approach)

\* Every model-service call the turn made failed: the intent analysis, the
\* clarifier, and the primary and the fallback generation attempt (the
\* assembler's failure is taken inside build_optimized_prompt and shows in no
\* event).
AllModelCallsFailed ==
    /\ env.asked /\ env.intake.kind = "throw"
    /\ Called("generate_clarifications") /\ env.clarifier.kind = "throw"
    /\ Called("execute_prompt") /\ env.result.error

\* C22: if every model-service call of a fresh turn fails, the turn still
\* ends with a message event followed by a completion status, and emits no
\* error event.
C22_AllCallsFailStillCompletes ==
    (pc = "done" /\ FreshTurn /\ AllModelCallsFailed) =>
        /\ ~Emitted("error")
        /\ Len(events) >= 2
        /\ events[Len(events) - 1].type = "message"
        /\ IsComplete(events[Len(events)])

\* The turn ran to its end: it neither suspended nor raised.
Completed == pc = "done" /\ ~env.raised

\* C23: a completed turn has exactly one message event, and the completion
\* status is the event right after it; the interaction counter is
\* incremented and the memory extraction run only after both were emitted.
C23_MessageThenCompleteThenBookkeeping ==
    /\ CountEmitted("message") <= 1
    /\ Completed => CountEmitted("message") = 1
    /\ \A i \in 1..Len(events) :
           events[i].type = "message" =>
               i < Len(events) /\ IsComplete(events[i + 1])
    /\ (Called("update_interaction_count") \/ Called("remember")) =>
           /\ Emitted("message")
           /\ \E i \in 1..Len(events) : IsComplete(events[i])

C23_Witness ==
    /\ Completed
    /\ Called("update_interaction_count") /\ Called("remember")
    /\ \E i \in 1..(Len(events) - 1) :
           events[i].type = "message" /\ IsComplete(events[i + 1])

\* C25: a turn started with the user's clarification answers never emits
\* another clarification-request, whatever the answer map holds, the empty
\* map included.
C25_AnsweredTurnNeverAsksAgain ==
    args.clarification_answers \in {"empty", "some"} =>
        ~Emitted("clarification")

\* C26: whenever build_optimized_prompt returns the template and a chosen
\* approach was supplied, the template holds the approach, on every path
\* to the template: missing credential, failed call, empty or short output.
C26_TemplateKeepsApproach ==
    (/\ fn.name = "build_optimized_prompt" /\ fn.done
     /\ fn.out.prompt.source = "template"
     /\ Truthy(fn.input.selected_approach)) =>
        "chosen_approach" \in fn.out.prompt.parts

\* C27: a chat turn started by a clarification_response or an
\* approach_selection frame, after an earlier turn of the request suspended
\* on a clarification-request, is given the intent record that event
\* carried, so it runs no intent analysis of its own.
C27_ChatResumesWithCarriedIntake ==
    (/\ ws.handling \in {"clarification_response", "approach_selection"}
     /\ ws.clarification_sent) =>
        /\ HasPrevious(args)
        /\ ~Called("analyze_intent")

\* C28: the completion status is the last event of a completed turn.
C28_CompleteIsLastEvent ==
    Completed => IsComplete(events[Len(events)])

TerminalEvents == {"clarification", "approach_proposal", "message", "error"}
CountTerminal == Cardinality({i \in 1..Len(events) : events[i].type \in TerminalEvents})

\* C29: a turn that has run to its end has emitted exactly one event among
\* clarification-request, approach-request, message and error (and never
\* more than one before that); an error never follows a message; a
\* suspended turn has emitted neither a message nor an error.
C29_ExactlyOneTerminalEvent ==
    /\ CountTerminal <= 1
    /\ TurnOver => CountTerminal = 1
    /\ \A i \in 1..Len(events) : \A j \in (i + 1)..Len(events) :
           ~(events[i].type = "message" /\ events[j].type = "error")
    /\ pc = "suspended" =>
           /\ ~Emitted("message") /\ ~Emitted("error")
           /\ events[Len(events)].type \in {"clarification", "approach_proposal"}

C29_Witness ==
    /\ pc = "done" /\ Called("update_interaction_count")
    /\ CountTerminal = 1 /\ Emitted("message")
    /\ events[Len(events)].state = "info"

\* The table of the call holds an active row of this name.
ActiveNamed(name) ==
    \E j \in 1..Len(fn.before) : fn.before[j].name = name /\ fn.before[j].active
\* The list the call returned holds a skill of this name.
Returned(name) == \E i \in 1..Len(fn.out) : fn.out[i].name = name

\* C30: whenever a profile override applies and the skill it names is
\* active, that skill is in the list select_skills returns, whatever the
\* scores of the other candidates: concise_mode for an expert or a user who
\* prefers brief answers, error_handling_focus for a technical or expert
\* user on a code task.
C30_OverrideSkillReturned ==
    (/\ fn.name = "select_skills" /\ fn.done /\ fn.session = "ok"
     /\ fn.user_profile.given = "some") =>
        /\ (WantsConcise(fn.user_profile) /\ ActiveNamed("concise_mode")) =>
               Returned("concise_mode")
        /\ (/\ fn.task_type = "code"
            /\ TechnicalLevel(fn.user_profile) \in {"technical", "expert"}
            /\ ActiveNamed("error_handling_focus")) =>
               Returned("error_handling_focus")

\* No active row of the call's table passes the task-type and complexity
\* filter (the empty table included).
NoCandidate ==
    Candidates(SelectSeq(fn.before, LAMBDA sk : sk.active),
               fn.task_type, fn.complexity) = << >>

\* C31: when the catalog is empty or no active skill passes the task-type
\* and complexity filter, select_skills returns the empty list, for every
\* user profile.
C31_NoMatchReturnsEmpty ==
    (fn.name = "select_skills" /\ fn.done /\ NoCandidate) => fn.out = << >>

\* C32: after a successful select_skills call that returns list L, the
\* usage counter of every skill in L is exactly one higher in the table than
\* before the call, and every row of a skill not in L is unchanged, its
\* feedback counters and effectiveness included.
C32_UsageCountedOncePerReturnedSkill ==
    (fn.name = "select_skills" /\ fn.done /\ fn.session = "ok") =>
        /\ Len(fn.db) = Len(fn.before)
        /\ \A j \in 1..Len(fn.before) :
               IF Returned(fn.before[j].name)
               THEN fn.db[j] = [fn.before[j] EXCEPT !.usage_count = @ + 1]
               ELSE fn.db[j] = fn.before[j]
        /\ \A i \in 1..Len(fn.out) :
               \E j \in 1..Len(fn.db) : fn.db[j] = fn.out[i]

C32_Witness ==
    /\ fn.name = "select_skills" /\ fn.done /\ fn.session = "ok"
    /\ Len(fn.out) >= 2
    /\ \E j \in 1..Len(fn.before) : ~Returned(fn.before[j].name)
    /\ \E j \in 1..Len(fn.before) :
           Returned(fn.before[j].name)
           /\ fn.db[j].usage_count = fn.before[j].usage_count + 1

\* C33: for a task type in {code, debugging, system_design, math} without
\* the Claude credential, select_model returns provider gemini with Gemini
\* Pro as primary when complexity >= 7 and Gemini Flash when complexity < 7.
C33_CodeTaskWithoutClaudeTierByComplexity ==
    (rt.done /\ rt.task_type \in code_tasks /\ ~keys.anthropic) =>
        /\ rt.out.provider = "gemini"
        /\ rt.out.primary_model =
               IF rt.complexity >= 7 THEN GEMINI_PRO ELSE GEMINI_FLASH

\* The capability tier of a model: Flash below Pro below Claude Sonnet.
Tier(model) ==
    CASE model = GEMINI_FLASH -> 1
      [] model = GEMINI_PRO -> 2
      [] model = CLAUDE_SONNET -> 3
      [] OTHER -> 0

\* C34: whenever complexity >= 8, the fallback model select_model returns
\* is of a strictly lower tier than the primary model, and so never the
\* primary model itself, for every task type, hint and credential
\* combination.
C34_FallbackBelowPrimaryAtHighComplexity ==
    (rt.done /\ rt.complexity >= 8) =>
        /\ rt.out.fallback_model # rt.out.primary_model
        /\ Tier(rt.out.fallback_model) < Tier(rt.out.primary_model)

\* C35: the recommendation hint, for every complexity and each of the ten
\* task types an intent record can hold: with hint claude and
\* the Claude credential, provider claude with Claude Sonnet as primary for
\* every task type; with hint gemini and a task type outside the code
\* family, provider gemini with Gemini Pro as primary if complexity >= 7 and
\* Gemini Flash otherwise; with hint gemini, a task type of the code family
\* and the credential, provider claude.
C35_RecommendationHint ==
    (rt.done /\ rt.task_type \in VALID_TASK_TYPES) =>
        /\ (rt.recommended = "claude" /\ keys.anthropic) =>
               /\ rt.out.provider = "claude"
               /\ rt.out.primary_model = CLAUDE_SONNET
        /\ (rt.recommended = "gemini" /\ rt.task_type \notin code_tasks) =>
               /\ rt.out.provider = "gemini"
               /\ rt.out.primary_model =
                      IF rt.complexity >= 7 THEN GEMINI_PRO ELSE GEMINI_FLASH
        /\ (rt.recommended = "gemini" /\ rt.task_type \in code_tasks
                /\ keys.anthropic) =>
               rt.out.provider = "claude"

C35_Witness ==
    /\ rt.done /\ keys.anthropic
    /\ rt.recommended = "gemini" /\ rt.task_type = "writing" /\ rt.complexity = 9
    /\ rt.out.provider = "gemini" /\ rt.out.primary_model = GEMINI_PRO

ReturnedS ==
    {t \in 1..ConcurrentTurns : fn.turns[t].pc = "committed" /\ fn.turns[t].returns}

\* C37: when turns run concurrently on separate sessions, no usage
\* increment is lost: once every call is over, the usage counter of S has
\* grown by at least the number of calls that returned S.
C37_NoUsageIncrementLost ==
    (/\ fn.name = "select_skills_concurrent"
     /\ \A t \in 1..ConcurrentTurns : fn.turns[t].pc \in {"committed", "failed"}) =>
        fn.usage >= fn.before + Cardinality(ReturnedS)

\* C38: only the tools of the active bucket are passed to the prompt
\* assembler and reported in the metadata of the final message; a tool of
\* the recommended bucket is never passed to assembly or execution and is
\* only named in the informational status.
C38_OnlyActiveToolsUsed ==
    /\ Called("build_optimized_prompt") =>
           env.assembler_tools = env.mcp_selection.active
    /\ Emitted("message") => metadata.mcps_used = env.mcp_selection.active
    /\ env.mcp_selection.recommended
           \cap (env.assembler_tools \cup env.executor_tools \cup metadata.mcps_used) = {}
    /\ env.info_names \subseteq env.mcp_selection.recommended
    /\ (\E i \in 1..Len(events) : events[i].state = "info") =>
           env.info_names = env.mcp_selection.recommended

C38_Witness ==
    /\ pc = "done" /\ Emitted("message")
    /\ env.mcp_selection.recommended # {} /\ env.mcp_selection.active # {}
    /\ metadata.mcps_used = env.mcp_selection.active
    /\ env.info_names = env.mcp_selection.recommended
    /\ events[Len(events)].state = "info"

\* A path that is absolute or whose normalized form climbs above the root.
Escapes(p) ==
    p.abs \/ (normpath(p).segs # << >> /\ normpath(p).segs[1] = "..")

\* C39: materialization never writes outside its root: every extracted path
\* that is absolute or whose normalized form climbs above the root with ".."
\* is rejected, is not written and is absent from the returned list of
\* paths, on every code path that writes the files of a model response.
C39_NeverWritesOutsideRoot ==
    (fn.name = "materialize" /\ fn.pc = "done") =>
        /\ \A i \in 1..Len(fn.files) :
               Escapes(fn.files[i].path) =>
                   /\ ~InList(fn.files[i].path, fn.out.written)
                   /\ Target(fn.files[i].path) \notin fn.out.disk
        /\ \A t \in fn.out.disk : ~t.abs /\ (t.segs = << >> \/ t.segs[1] # "..")

\* More than 70% of the distinct words of a candidate occur in a memory.
Over70(candidate, memory) ==
    LET cw == LowerWords(candidate)
    IN  cw # {} /\ 10 * Cardinality(cw \cap LowerWords(memory)) > 7 * Cardinality(cw)

\* C40: remember never stores a candidate when more than 70% of its distinct
\* words occur in some existing active memory or in a memory stored earlier
\* in the same call, for candidates of every length.
C40_NoNearDuplicateStored ==
    (fn.name = "remember" /\ fn.pc = "done") =>
        \A k \in 1..Len(fn.stored) :
            LET i == fn.stored[k]
            IN  /\ \A e \in 1..Len(fn.existing) :
                       ~Over70(fn.new_memories[i], fn.existing[e])
                /\ \A j \in 1..(k - 1) :
                       ~Over70(fn.new_memories[i], fn.new_memories[fn.stored[j]])


====
